---- MODULE Spec2Model ----
(***************************************************************************)
(* Client-side state synchronisation of the kanban board: the task store   *)
(* (hooks/useTasks.ts), the board with its drag-and-drop handlers and task *)
(* form (KanbanBoard), against an asynchronous backend that may fail.      *)
(*                                                                         *)
(* One step of the model is one turn of the UI event loop: a handler run   *)
(* up to its first await, the backend answering one request, or the        *)
(* continuation of an await together with the effects React runs after the *)
(* render it causes.                                                       *)
(***************************************************************************)
EXTENDS Integers, Sequences, FiniteSets, TLC

(***************************************************************************)
(* Bounds of the model.                                                    *)
(***************************************************************************)
\* requests that may be awaiting the backend at the same time
MaxInFlight == 2
\* store operations the user starts (drop-save, form submit, delete, sort change)
MaxOps == 2
\* the wall clock stops at MaxClock (minutes, the resolution of the timestamps)
MaxClock == 2
\* the longest task list sortTasks is called with on its own
MaxLen == 3
\* times React runs the board's mount effects (twice under StrictMode)
MaxMounts == 2

(***************************************************************************)
(* Data model (types.ts).                                                  *)
(***************************************************************************)
\* Status = "未着手" | "着手中" | "完了"
STATUSES == <<"not-started", "in-progress", "done">>

StatusSet == {STATUSES[i] : i \in 1..Len(STATUSES)}

\* Priority = "低" | "中" | "高"
Priorities == {"low", "medium", "high"}

SortOption == {"created-desc", "created-asc", "updated-desc", "updated-asc",
               "due-asc", "due-desc", "priority-desc", "priority-asc"}

\* the sort options the SortSelector is exercised with
SortChoices == {"created-desc", "updated-desc", "priority-asc"}

\* file paths the backend mints, in the order it lists them
PathOrder == <<"t1", "t2", "t3">>

Paths == {PathOrder[i] : i \in 1..Len(PathOrder)}

\* `null` of a string-valued state
Null == "null"

\* filePath of a draft that was never persisted
DraftPath == ""

\* the due sentinel "-"; real dates are the positive numbers
DueUnset == 0

\* option values: null is the empty sequence, a value x is <<x>>
None == <<>>

Some(x) == <<x>>

\* weights that rank "low" highest (the variant the property of C16 excludes)
PRIORITY_WEIGHT_LowFirst == [p \in Priorities |->
                      CASE p = "high" -> 1 [] p = "medium" -> 2 [] p = "low" -> 3]

PRIORITY_WEIGHT == [p \in Priorities |->
                      CASE p = "high" -> 3 [] p = "medium" -> 2 [] p = "low" -> 1]

(***************************************************************************)
(* sortTasks: Array.prototype.sort with the comparator of the source.      *)
(* Timestamps and dates are fixed-format strings compared by localeCompare;*)
(* they are numbers here and the comparison is numeric.                    *)
(***************************************************************************)
\* a comparison that never answers 0: equal strings count as "before"
\* (the variant the property of C14 excludes)
localeCompareNoTie(x, y) == IF x <= y THEN -1 ELSE 1

localeCompare(x, y) == IF x < y THEN -1 ELSE IF x > y THEN 1 ELSE 0

\* a comparator that treats "-" as a date like any other
\* (the variant the property of C15 excludes)
compareTasksPlainDue(a, b, option) ==
  CASE option = "created-desc" -> localeCompare(b.created, a.created)
    [] option = "created-asc" -> localeCompare(a.created, b.created)
    [] option = "updated-desc" -> localeCompare(b.updated, a.updated)
    [] option = "updated-asc" -> localeCompare(a.updated, b.updated)
    [] option = "due-asc" -> localeCompare(a.due, b.due)
    [] option = "due-desc" -> localeCompare(b.due, a.due)
    [] option = "priority-desc" -> PRIORITY_WEIGHT[b.priority] - PRIORITY_WEIGHT[a.priority]
    [] option = "priority-asc" -> PRIORITY_WEIGHT[a.priority] - PRIORITY_WEIGHT[b.priority]
    [] OTHER -> 0

\* a comparator that tests b.due for "-" before a.due
\* (the variant the property of C17 excludes)
compareTasksDueOfBFirst(a, b, option) ==
  CASE option = "created-desc" -> localeCompare(b.created, a.created)
    [] option = "created-asc" -> localeCompare(a.created, b.created)
    [] option = "updated-desc" -> localeCompare(b.updated, a.updated)
    [] option = "updated-asc" -> localeCompare(a.updated, b.updated)
    [] option = "due-asc" -> IF b.due = DueUnset THEN -1
                             ELSE IF a.due = DueUnset THEN 1
                             ELSE localeCompare(a.due, b.due)
    [] option = "due-desc" -> IF b.due = DueUnset THEN -1
                              ELSE IF a.due = DueUnset THEN 1
                              ELSE localeCompare(b.due, a.due)
    [] option = "priority-desc" -> PRIORITY_WEIGHT[b.priority] - PRIORITY_WEIGHT[a.priority]
    [] option = "priority-asc" -> PRIORITY_WEIGHT[a.priority] - PRIORITY_WEIGHT[b.priority]
    [] OTHER -> 0

compareTasks(a, b, option) ==
  CASE option = "created-desc" -> localeCompare(b.created, a.created)
    [] option = "created-asc" -> localeCompare(a.created, b.created)
    [] option = "updated-desc" -> localeCompare(b.updated, a.updated)
    [] option = "updated-asc" -> localeCompare(a.updated, b.updated)
    [] option = "due-asc" -> IF a.due = DueUnset THEN 1
                             ELSE IF b.due = DueUnset THEN -1
                             ELSE localeCompare(a.due, b.due)
    [] option = "due-desc" -> IF a.due = DueUnset THEN 1
                              ELSE IF b.due = DueUnset THEN -1
                              ELSE localeCompare(b.due, a.due)
    [] option = "priority-desc" -> PRIORITY_WEIGHT[b.priority] - PRIORITY_WEIGHT[a.priority]
    [] option = "priority-asc" -> PRIORITY_WEIGHT[a.priority] - PRIORITY_WEIGHT[b.priority]
    [] OTHER -> 0

\* the engine's insertion step: the new element is compared as the first
\* argument against the elements already placed, from the right
RECURSIVE InsertTask(_, _, _)
InsertTask(placed, x, option) ==
  IF placed = <<>> THEN <<x>>
  ELSE IF compareTasks(x, placed[Len(placed)], option) < 0
       THEN Append(InsertTask(SubSeq(placed, 1, Len(placed) - 1), x, option),
                   placed[Len(placed)])
       ELSE Append(placed, x)

RECURSIVE SortPrefix(_, _, _)
SortPrefix(ts, n, option) ==
  IF n = 0 THEN <<>>
  ELSE InsertTask(SortPrefix(ts, n - 1, option), ts[n], option)

sortTasks(ts, option) == SortPrefix(ts, Len(ts), option)

\* the engine's merge step (JavaScriptCore): the head of the right run is
\* compared as the first argument against the head of the left run, and is
\* taken when the result is negative
RECURSIVE MergeRuns(_, _, _)
MergeRuns(left, right, option) ==
  IF right = <<>> THEN left
  ELSE IF left = <<>> THEN right
  ELSE IF compareTasks(Head(right), Head(left), option) < 0
       THEN <<Head(right)>> \o MergeRuns(left, Tail(right), option)
       ELSE <<Head(left)>> \o MergeRuns(Tail(left), right, option)

\* one pass of the bottom-up merge sort: neighbouring runs of `width` are merged
RECURSIVE MergePass(_, _, _)
MergePass(ts, width, option) ==
  IF Len(ts) <= width THEN ts
  ELSE LET stop == IF 2 * width < Len(ts) THEN 2 * width ELSE Len(ts)
       IN  MergeRuns(SubSeq(ts, 1, width), SubSeq(ts, width + 1, stop), option)
             \o MergePass(SubSeq(ts, stop + 1, Len(ts)), width, option)

RECURSIVE MergeFrom(_, _, _)
MergeFrom(ts, width, option) ==
  IF width >= Len(ts) THEN ts
  ELSE MergeFrom(MergePass(ts, width, option), 2 * width, option)

\* Array.prototype.sort as the two engines a Tauri webview runs implement it:
\* V8 (WebView2) inserts, JavaScriptCore (WKWebView, WebKitGTK) merges
Engines == {"v8", "jsc"}

ArraySort(engine, ts, option) ==
  IF engine = "jsc" THEN MergeFrom(ts, 1, option) ELSE sortTasks(ts, option)

(***************************************************************************)
(* Sequence helpers (Array.prototype.map / find / filter).                 *)
(***************************************************************************)
Range(s) == {s[i] : i \in 1..Len(s)}

PathsOf(ts) == {ts[i].filePath : i \in 1..Len(ts)}

\* a replacement that adds the edited task to the collection next to the old one
\* (the variant the property of C11 excludes)
ReplaceTaskAppends(ts, task) == Append(ts, task)

\* ts.map(t => t.filePath === task.filePath ? task : t)
ReplaceTask(ts, task) ==
  [i \in 1..Len(ts) |-> IF ts[i].filePath = task.filePath THEN task ELSE ts[i]]

\* a preview that also lowers the priority of the task it moves
\* (the variant the property of C31 excludes)
SetStatusAndPriority(ts, path, status) ==
  [i \in 1..Len(ts) |-> IF ts[i].filePath = path
                        THEN [ts[i] EXCEPT !.status = status, !.priority = "low"]
                        ELSE ts[i]]

\* ts.map(t => t.filePath === path ? {...t, status} : t)
SetStatus(ts, path, status) ==
  [i \in 1..Len(ts) |-> IF ts[i].filePath = path
                        THEN [ts[i] EXCEPT !.status = status] ELSE ts[i]]

\* ts.find(t => t.filePath === path), as an option
FindTask(ts, path) ==
  IF \E i \in 1..Len(ts) : ts[i].filePath = path
  THEN Some(ts[CHOOSE i \in 1..Len(ts) :
                 /\ ts[i].filePath = path
                 /\ \A j \in 1..(i - 1) : ts[j].filePath /= path])
  ELSE None

(***************************************************************************)
(* State.                                                                  *)
(***************************************************************************)
VARIABLES
  backend,        \* the backend's task files: a set of tasks, one per filePath
  now,            \* the wall clock, in minutes
  reqs,           \* the invoke() calls awaiting their answer, by slot
  tasks,          \* useTasks: the canonical collection
  loading,        \* useTasks: loading flag
  error,          \* useTasks: error message or Null
  sortOption,     \* useTasks: the current sort option
  localTasks,     \* KanbanBoard: the collection the columns render (preview overlay)
  draggingTask,   \* KanbanBoard: the task shown in the drag overlay, or None
  originalStatus, \* KanbanBoard: the dragged task's status at drag start, or Null
  active,         \* DndContext: filePath of the card being dragged, or Null
  over,           \* DndContext: id of the droppable under the dragged card, or Null
  selectedTask,   \* KanbanBoard: the task the form is open on, or None
  isNewTask,      \* KanbanBoard: whether the form creates a task
  ops,            \* number of store operations the user has started
  ev,             \* history: the handler or continuation the last step ran
  sortCall,       \* sortTasks called on its own: arguments, result, position
  isGitRepo,      \* useGitSync: the folder is a git repository
  branches,       \* useGitSync: the branch list
  currentBranch,  \* useGitSync: the checked-out branch, or ""
  isSyncing,      \* useGitSync: a sync is running
  lastSyncResult, \* useGitSync: the last SyncResult, or None
  isChecking,     \* useGitSync: the detection has not finished
  syncMessage,    \* KanbanBoard: the sync message shown, or Null
  initialSyncDone, \* KanbanBoard: the ref that records the automatic sync
  timers,         \* KanbanBoard: the pending setTimeout callbacks that clear the
                  \* message, oldest first, each with the seconds left to its deadline
  shownFor,       \* seconds since the sync message now shown was set (0 with none)
  gitSettings,    \* KanbanBoard: the GitSettings in memory
  showBranchDropdown, \* KanbanBoard: the branch selector is open
  storedSettings, \* localStorage: the item under GIT_SETTINGS_KEY, or Null
  selectedFolder, \* App: the folder the board is opened on, or Null (start screen)
  isInitialized,  \* App: the stored folder has been looked up
  storedFolder,   \* localStorage: the item under STORAGE_KEY, or Null
  leftOn,         \* history: the screen the back button was last pressed on
  menu,           \* the "menu-new-task" listeners: registered and being registered
  inits,          \* useGitSync: the runs of the init effect, each with its position
  syncs           \* the invoke("git_sync") calls awaiting their answer, by slot

envVars == <<backend, now, reqs>>

storeVars == <<tasks, loading, error, sortOption>>

dragVars == <<localTasks, draggingTask, originalStatus, active, over>>

formVars == <<selectedTask, isNewTask>>

syncVars == <<isGitRepo, branches, currentBranch, isSyncing, lastSyncResult,
              isChecking, syncMessage, initialSyncDone, timers, inits, syncs,
              shownFor, gitSettings, showBranchDropdown, storedSettings>>

appVars == <<selectedFolder, isInitialized, storedFolder, leftOn>>

\* what the board's store, drag and form handlers never write
sideVars == <<sortCall, appVars, syncVars>>

\* what the git handlers never write, besides the board's own state
offVars == <<sortCall, appVars, menu>>

vars == <<backend, now, reqs, tasks, loading, error, sortOption, localTasks,
          draggingTask, originalStatus, active, over, selectedTask, isNewTask,
          ops, ev, sortCall, isGitRepo, branches, currentBranch, isSyncing,
          lastSyncResult, isChecking, syncMessage, initialSyncDone, timers,
          inits, syncs, shownFor, gitSettings, showBranchDropdown,
          storedSettings, selectedFolder, isInitialized, storedFolder, leftOn,
          menu>>

Slots == 1..MaxInFlight

\* ev of a step that ran none of the handlers the history names
NoEvent == <<"none", "none", "none", FALSE>>

\* the payload of a request that carries no task
NoTask == [filePath |-> Null, status |-> Null, priority |-> Null,
           created |-> 0, updated |-> 0, due |-> DueUnset]

EmptyReq == [kind |-> "none", task |-> NoTask, so |-> Null, cont |-> "none",
             via |-> "none", phase |-> "none", ok |-> FALSE, data |-> <<>>,
             alone |-> FALSE, folder |-> Null, orphan |-> FALSE]

\* a call of invoke(kind, ...) made by `via`, with the sort option its loadTasks
\* closure holds and what the caller does after its await returns; alone records
\* that no other store operation has run since the user's action that led to it
\* (orphan is set when the board that made the call is unmounted: its
\* continuation then updates no state)
NewReq(kind, task, so, cont, via, alone) ==
  [kind |-> kind, task |-> task, so |-> so, cont |-> cont, via |-> via,
   phase |-> "sent", ok |-> FALSE, data |-> <<>>, alone |-> alone,
   folder |-> selectedFolder, orphan |-> FALSE]

FreeSlots == {s \in Slots : reqs[s].kind = "none"}

\* the slot a new call takes: the first free one (slots are only names)
FreeSlot == CHOOSE s \in FreeSlots : \A t \in FreeSlots : s <= t

\* no call is awaiting the backend
Quiet == \A s \in Slots : reqs[s].kind = "none"

\* every call still in flight has seen another store operation run
Interleaved(rs) == [s \in Slots |-> [rs[s] EXCEPT !.alone = FALSE]]

\* the files of the backend in the order get_tasks lists them
RECURSIVE ListFiles(_, _)
ListFiles(files, i) ==
  IF i > Len(PathOrder) THEN <<>>
  ELSE (IF \E t \in files : t.filePath = PathOrder[i]
        THEN <<CHOOSE t \in files : t.filePath = PathOrder[i]>>
        ELSE <<>>) \o ListFiles(files, i + 1)

\* the folder that holds the task files, and an empty folder
TasksFolder == "f1"

OtherFolder == "f2"

Folders == {TasksFolder, OtherFolder}

BackendSeq == ListFiles(backend, 1)

\* get_tasks(folderPath): the files of the folder
get_tasks(folderPath) == IF folderPath = TasksFolder THEN BackendSeq ELSE <<>>

\* what KanbanBoard renders: the loading screen, the error screen, or the board
LoadingScreen(ld, lt) == ld /\ Len(lt) = 0

ErrorScreen(err) == err /= Null

\* App renders KanbanBoard when a folder is selected, and Home otherwise
BoardOpen == isInitialized /\ selectedFolder /= Null

BoardShown == BoardOpen /\ ~LoadingScreen(loading, localTasks) /\ ~ErrorScreen(error)

\* the form is rendered (and covers the board) when the board is and a task is selected
FormShown == BoardShown /\ selectedTask /= None

\* DndContext is unmounted, and its drag forgotten, when the board is not rendered
DndAfter(ld, err, lt) ==
  /\ active' = IF LoadingScreen(ld, lt) \/ ErrorScreen(err) THEN Null ELSE active
  /\ over' = IF LoadingScreen(ld, lt) \/ ErrorScreen(err) THEN Null ELSE over

\* the menu listener effect (deps [handleCreateTask, selectedTask]) runs again:
\* the cleanup of the previous run calls its unlisten if listen() has resolved
\* (the listener of that run is removed) and does nothing if it has not (the
\* listener will stay registered once it has), then setup() calls listen() with
\* a callback that holds the selectedTask of this render (closed: it is null).
\* A listener that will never be removed is `leaked`; listeners and pending
\* registrations that hold the same are kept once.
MenuCleanup(m) ==
  [listeners |-> {l \in m.listeners : l.leaked},
   pending |-> {[p EXCEPT !.cleaned = TRUE] : p \in m.pending}]

MenuSetup(m, closed) ==
  [m EXCEPT !.pending = m.pending \cup {[closed |-> closed, cleaned |-> FALSE]}]

\* no listener, registered or being registered
NoListeners == [listeners |-> {}, pending |-> {}]

\* the effect after a step of the board: it runs again when selectedTask has
\* changed (menu is None where the listeners are not followed)
MenuEffect ==
  menu' = IF menu = None \/ selectedTask' = selectedTask THEN menu
          ELSE Some(MenuSetup(MenuCleanup(menu[1]), selectedTask' = None))

InitialFiles ==
  { [filePath |-> "t1", status |-> "not-started", priority |-> "low",
     created |-> 0, updated |-> 1, due |-> DueUnset],
    [filePath |-> "t2", status |-> "in-progress", priority |-> "high",
     created |-> 1, updated |-> 1, due |-> DueUnset] }

(***************************************************************************)
(* useTasks.  State updates made in one turn are batched into one render   *)
(* (React 18), so a turn is one step.                                      *)
(***************************************************************************)
\* loadTasks() up to its await: the state it sets and the request it issues in slot s
loadTasksCall(rs, s, so, cont, via, alone) ==
  /\ loading' = TRUE
  /\ error' = Null
  /\ reqs' = [rs EXCEPT ![s] = NewReq("get_tasks", NoTask, so, cont, via, alone)]

\* no call of sortTasks on its own is being followed
NoCall == [tasks |-> <<>>, sortOption |-> Null, sorted |-> <<>>, pc |-> "idle"]

\* the board is mounted on the tasks folder: its effect has called loadTasks()
BoardMounted ==
  /\ selectedFolder = TasksFolder
  /\ isInitialized = TRUE
  /\ storedFolder = TasksFolder
  /\ leftOn = "none"
  /\ backend = InitialFiles
  /\ now = 1
  /\ tasks = <<>>
  /\ loading = TRUE
  /\ error = Null
  /\ sortOption = "created-desc"
  /\ reqs = [s \in Slots |->
               IF s = 1
               THEN [kind |-> "get_tasks", task |-> NoTask, so |-> "created-desc",
                     cont |-> "none", via |-> "effect", phase |-> "sent",
                     ok |-> FALSE, data |-> <<>>, alone |-> TRUE,
                     folder |-> TasksFolder, orphan |-> FALSE]
               ELSE EmptyReq]
  /\ localTasks = <<>>
  /\ draggingTask = None
  /\ originalStatus = Null
  /\ active = Null
  /\ over = Null
  /\ selectedTask = None
  /\ isNewTask = FALSE
  /\ ops = 0
  /\ ev = NoEvent

\* a run of useGitSync's init effect that was never started, and a free sync slot
NoInit == [pc |-> "off", branches |-> FALSE, current |-> FALSE]

NoSync == [phase |-> "none", via |-> "none", branch |-> Null, answer |-> Null]

\* the delay of the timer that clears the sync message: setTimeout(..., 3000)
SYNC_MESSAGE_SECONDS == 3

DEFAULT_GIT_SETTINGS == [syncBranch |-> "main"]

\* the branches get_git_branches lists
BranchList == <<"main", "dev">>

\* JSON.stringify of a GitSettings object
JSONstringify(settings) == "{\"syncBranch\":\"" \o settings.syncBranch \o "\"}"

\* a stored text that JSON.parse rejects
Unparsable == "{\"syncBranch\":"

\* what localStorage can hold under GIT_SETTINGS_KEY: nothing, a text that does
\* not parse, or what handleBranchChange wrote
StoredSettings ==
  {Null, Unparsable} \cup {JSONstringify([syncBranch |-> BranchList[i]]) :
                             i \in 1..Len(BranchList)}

\* JSON.parse of a stored text: the object it denotes, or None when it throws
JSONparse(text) ==
  IF \E i \in 1..Len(BranchList) : text = JSONstringify([syncBranch |-> BranchList[i]])
  THEN Some([syncBranch |->
               BranchList[CHOOSE i \in 1..Len(BranchList) :
                            text = JSONstringify([syncBranch |-> BranchList[i]])]])
  ELSE None

\* a settings-load effect that keeps no default for a text that does not parse
\* (the variant the property of C25 excludes)
loadGitSettingsNoCatch(saved) ==
  IF saved = Null THEN DEFAULT_GIT_SETTINGS
  ELSE IF JSONparse(saved) /= None THEN JSONparse(saved)[1]
  ELSE [syncBranch |-> saved]

\* the settings-load effect: the GitSettings in memory once it has run on the
\* stored item saved
loadGitSettings(saved) ==
  IF saved = Null THEN DEFAULT_GIT_SETTINGS
  ELSE IF JSONparse(saved) /= None THEN JSONparse(saved)[1]
  ELSE DEFAULT_GIT_SETTINGS

\* useGitSync and the board's sync state as useState / useRef create them and
\* the mount effects leave them, with saved in localStorage and the init effect
\* run n times
GitMountedOn(n, saved) ==
  /\ isGitRepo = FALSE
  /\ branches = <<>>
  /\ currentBranch = ""
  /\ isSyncing = FALSE
  /\ lastSyncResult = None
  /\ isChecking = TRUE
  /\ syncMessage = Null
  /\ initialSyncDone = FALSE
  /\ timers = <<>>
  /\ shownFor = 0
  /\ storedSettings = saved
  /\ gitSettings = loadGitSettings(saved)
  /\ showBranchDropdown = FALSE
  /\ inits = [i \in 1..MaxMounts |-> IF i <= n THEN [NoInit EXCEPT !.pc = "check"]
                                     ELSE NoInit]
  /\ syncs = [k \in Slots |-> NoSync]

\* the same with nothing stored
GitMounted(n) == GitMountedOn(n, Null)

\* the store, the drag handlers and the form on their own: git detection is not followed
Init == BoardMounted /\ sortCall = NoCall /\ GitMounted(0) /\ menu = None

\* what the caller of a store operation does once its await returns
\* (handleSaveTask closes the form and clears isNewTask, handleDeleteTask closes it)
Continue(cont) ==
  CASE cont = "closeSave" -> selectedTask' = None /\ isNewTask' = FALSE
    [] cont = "closeDelete" -> selectedTask' = None /\ isNewTask' = isNewTask
    [] OTHER -> UNCHANGED formVars

\* handleSync after its await of loadTasks(): setTimeout(() => setSyncMessage(null), 3000)
ContinueSync(cont) ==
  IF cont = "armTimer"
  THEN /\ timers' = Append(timers, SYNC_MESSAGE_SECONDS)
       /\ UNCHANGED <<isGitRepo, branches, currentBranch, isSyncing, lastSyncResult,
                      isChecking, syncMessage, initialSyncDone, inits, syncs,
                      shownFor, gitSettings, showBranchDropdown, storedSettings>>
  ELSE UNCHANGED syncVars

\* a saveTask that stamps the creation time as well
\* (the variant the property of C39 excludes)
StampCreated(task) == [task EXCEPT !.updated = now, !.created = now]

\* the updated stamp saveTask computes from new Date()
Stamp(task) == [task EXCEPT !.updated = now]

\* saveTask: the optimistic replacement in the canonical collection; the board's
\* effect on [tasks] copies the new collection into localTasks
saveTaskOptimistic(updatedTask) ==
  /\ tasks' = sortTasks(ReplaceTask(tasks, updatedTask), sortOption)
  /\ localTasks' = tasks'

\* saveTask(task) up to its await, called by a handler that continues with cont
saveTaskCall(task, s, cont) ==
  /\ saveTaskOptimistic(Stamp(task))
  /\ reqs' = [Interleaved(reqs) EXCEPT
                ![s] = NewReq("save_task", Stamp(task), sortOption, cont,
                              "saveTask", Quiet)]
  /\ UNCHANGED <<loading, error, sortOption>>

\* a createTask that inserts the draft into the canonical collection at once
\* (the variant the property of C8 excludes)
createTaskOptimistic(taskData, s, cont) ==
  /\ reqs' = [Interleaved(reqs) EXCEPT
                ![s] = NewReq("create_task", taskData, sortOption, cont,
                              "createTask", Quiet)]
  /\ tasks' = sortTasks(Append(tasks, [taskData EXCEPT !.filePath = DraftPath]),
                        sortOption)
  /\ localTasks' = tasks'
  /\ UNCHANGED <<loading, error, sortOption>>

\* createTask(taskData) up to its await
createTaskCall(taskData, s, cont) ==
  /\ reqs' = [Interleaved(reqs) EXCEPT
                ![s] = NewReq("create_task", taskData, sortOption, cont,
                              "createTask", Quiet)]
  /\ UNCHANGED <<storeVars, localTasks>>

\* a deleteTask that removes the task from the canonical collection at once
\* (the variant the property of C9 excludes)
deleteTaskOptimistic(filePath, s, cont) ==
  /\ reqs' = [Interleaved(reqs) EXCEPT
                ![s] = NewReq("delete_task", [NoTask EXCEPT !.filePath = filePath],
                              sortOption, cont, "deleteTask", Quiet)]
  /\ tasks' = SelectSeq(tasks, LAMBDA t : t.filePath /= filePath)
  /\ localTasks' = tasks'
  /\ UNCHANGED <<loading, error, sortOption>>

\* deleteTask(filePath) up to its await
deleteTaskCall(filePath, s, cont) ==
  /\ reqs' = [Interleaved(reqs) EXCEPT
                ![s] = NewReq("delete_task", [NoTask EXCEPT !.filePath = filePath],
                              sortOption, cont, "deleteTask", Quiet)]
  /\ UNCHANGED <<storeVars, localTasks>>

\* the board's effect on [loadTasks]: a changed sortOption gives loadTasks a
\* new identity, and the effect calls it
loadTasksEffect(option) ==
  IF option /= sortOption
  THEN /\ FreeSlots /= {}
       /\ loadTasksCall(Interleaved(reqs), FreeSlot, option, "none", "effect", Quiet)
  ELSE /\ reqs' = Interleaved(reqs)
       /\ UNCHANGED <<loading, error>>

\* changeSortOption(option), from the SortSelector (a pointer that is dragging a
\* card cannot click it), and the effects of its render
changeSortOption(option) ==
  /\ UNCHANGED sideVars
  /\ BoardShown /\ selectedTask = None /\ active = Null
  /\ ops < MaxOps
  /\ sortOption' = option
  /\ tasks' = sortTasks(tasks, option)
  /\ localTasks' = tasks'
  /\ loadTasksEffect(option)
  /\ DndAfter(loading', error', localTasks')
  /\ ops' = ops + 1
  /\ ev' = <<"changeSortOption", option, sortOption, FALSE>>
  /\ UNCHANGED <<backend, now, draggingTask, originalStatus, formVars>>
  /\ MenuEffect

(***************************************************************************)
(* The backend (external): it answers one request at a time, with success  *)
(* or an error; an operation that fails changes no file.                   *)
(***************************************************************************)
FreshPaths == {i \in 1..Len(PathOrder) : PathOrder[i] \notin {t.filePath : t \in backend}}

MintPath == PathOrder[CHOOSE i \in FreshPaths : \A j \in FreshPaths : i <= j]

BackendApply(r) ==
  CASE r.kind = "save_task" ->
         {t \in backend : t.filePath /= r.task.filePath} \cup {r.task}
    [] r.kind = "create_task" ->
         backend \cup {[r.task EXCEPT !.filePath = MintPath,
                                      !.created = now, !.updated = now]}
    [] r.kind = "delete_task" ->
         {t \in backend : t.filePath /= r.task.filePath}
    [] OTHER -> backend

BackendCanServe(r) ==
  CASE r.kind = "create_task" -> FreshPaths /= {}
    [] r.kind = "delete_task" -> \E t \in backend : t.filePath = r.task.filePath
    [] OTHER -> TRUE

BackendAnswer(s) ==
  /\ UNCHANGED sideVars
  /\ reqs[s].kind /= "none" /\ reqs[s].phase = "sent"
  /\ \E ok \in BOOLEAN :
       /\ ok => BackendCanServe(reqs[s])
       /\ backend' = IF ok THEN BackendApply(reqs[s]) ELSE backend
       /\ reqs' = [reqs EXCEPT ![s].phase = "answered", ![s].ok = ok,
                               ![s].data = IF ok /\ reqs[s].kind = "get_tasks"
                                           THEN get_tasks(reqs[s].folder)
                                           ELSE <<>>]
  /\ ev' = NoEvent
  /\ UNCHANGED <<now, storeVars, dragVars, formVars, ops>>
  /\ MenuEffect

Tick ==
  /\ UNCHANGED sideVars
  /\ now < MaxClock
  /\ now' = now + 1
  /\ ev' = NoEvent
  /\ UNCHANGED <<backend, reqs, storeVars, dragVars, formVars, ops>>
  /\ MenuEffect

(***************************************************************************)
(* useTasks after the await: the answer of the backend reaches the client. *)
(***************************************************************************)
\* loadTasks, the try block after its await: the fetched tasks, sorted under the
\* sortOption of the closure that made the call, become the canonical collection
loadTasksTry(s) ==
  /\ tasks' = sortTasks(reqs[s].data, reqs[s].so)
  /\ localTasks' = tasks'
  /\ error' = error

\* a catch block that also empties the canonical collection
\* (the variant the property of C7 excludes)
loadTasksCatchClears(s) ==
  /\ error' = "get_tasks failed"
  /\ tasks' = <<>>
  /\ localTasks' = tasks'

\* loadTasks, the catch block
loadTasksCatch(s) ==
  /\ error' = "get_tasks failed"
  /\ UNCHANGED <<tasks, localTasks>>

\* loadTasks after its await, then the continuation of the caller that awaited it
loadTasksReturn(s) ==
  /\ UNCHANGED <<sortCall, appVars>>
  /\ ContinueSync(reqs[s].cont)
  /\ reqs[s].kind = "get_tasks" /\ reqs[s].phase = "answered" /\ ~reqs[s].orphan
  /\ IF reqs[s].ok THEN loadTasksTry(s) ELSE loadTasksCatch(s)
  /\ loading' = FALSE
  /\ reqs' = [Interleaved(reqs) EXCEPT ![s] = EmptyReq]
  /\ Continue(reqs[s].cont)
  /\ DndAfter(loading', error', localTasks')
  /\ ev' = <<"loadTasks", IF reqs[s].ok THEN "ok" ELSE "failed", reqs[s].via,
             reqs[s].alone>>
  /\ UNCHANGED <<backend, now, sortOption, draggingTask, originalStatus, ops>>
  /\ MenuEffect

\* a catch block that only records the error and reloads nothing
\* (the variant the property of C4 excludes)
saveTaskCatchGivesUp(s) ==
  /\ error' = "save_task failed"
  /\ reqs' = [Interleaved(reqs) EXCEPT ![s] = EmptyReq]
  /\ Continue(reqs[s].cont)
  /\ UNCHANGED loading

\* saveTask, the catch block: setError(e), then loadTasks() of the closure saveTask
\* holds, which clears the error again in the same turn
saveTaskCatch(s) ==
  /\ loadTasksCall(Interleaved(reqs), s, reqs[s].so, reqs[s].cont, "saveTask",
                   reqs[s].alone)
  /\ UNCHANGED formVars

\* saveTask after its await
saveTaskReturn(s) ==
  /\ UNCHANGED sideVars
  /\ reqs[s].kind = "save_task" /\ reqs[s].phase = "answered" /\ ~reqs[s].orphan
  /\ IF reqs[s].ok
     THEN /\ reqs' = [Interleaved(reqs) EXCEPT ![s] = EmptyReq]
          /\ Continue(reqs[s].cont)
          /\ UNCHANGED <<loading, error>>
     ELSE saveTaskCatch(s)
  /\ DndAfter(loading', error', localTasks)
  /\ ev' = <<"saveTask", IF reqs[s].ok THEN "ok" ELSE "failed", reqs[s].cont,
             reqs[s].alone>>
  /\ UNCHANGED <<backend, now, tasks, sortOption, localTasks, draggingTask,
                 originalStatus, ops>>
  /\ MenuEffect

\* createTask after its await, the try block: await loadTasks()
createTaskTry(s) ==
  /\ loadTasksCall(Interleaved(reqs), s, reqs[s].so, reqs[s].cont, "createTask",
                   reqs[s].alone)
  /\ UNCHANGED formVars

\* createTask, the catch block, then the continuation of the caller
createTaskCatch(s) ==
  /\ error' = "create_task failed"
  /\ reqs' = [Interleaved(reqs) EXCEPT ![s] = EmptyReq]
  /\ Continue(reqs[s].cont)
  /\ UNCHANGED loading

createTaskReturn(s) ==
  /\ UNCHANGED sideVars
  /\ reqs[s].kind = "create_task" /\ reqs[s].phase = "answered" /\ ~reqs[s].orphan
  /\ IF reqs[s].ok THEN createTaskTry(s) ELSE createTaskCatch(s)
  /\ DndAfter(loading', error', localTasks)
  /\ ev' = <<"createTask", IF reqs[s].ok THEN "ok" ELSE "failed", reqs[s].cont,
             reqs[s].alone>>
  /\ UNCHANGED <<backend, now, tasks, sortOption, localTasks, draggingTask,
                 originalStatus, ops>>
  /\ MenuEffect

\* deleteTask after its await, the try block: await loadTasks()
deleteTaskTry(s) ==
  /\ loadTasksCall(Interleaved(reqs), s, reqs[s].so, reqs[s].cont, "deleteTask",
                   reqs[s].alone)
  /\ UNCHANGED formVars

\* deleteTask, the catch block, then the continuation of the caller
deleteTaskCatch(s) ==
  /\ error' = "delete_task failed"
  /\ reqs' = [Interleaved(reqs) EXCEPT ![s] = EmptyReq]
  /\ Continue(reqs[s].cont)
  /\ UNCHANGED loading

deleteTaskReturn(s) ==
  /\ UNCHANGED sideVars
  /\ reqs[s].kind = "delete_task" /\ reqs[s].phase = "answered" /\ ~reqs[s].orphan
  /\ IF reqs[s].ok THEN deleteTaskTry(s) ELSE deleteTaskCatch(s)
  /\ DndAfter(loading', error', localTasks)
  /\ ev' = <<"deleteTask", IF reqs[s].ok THEN "ok" ELSE "failed", reqs[s].cont,
             reqs[s].alone>>
  /\ UNCHANGED <<backend, now, tasks, sortOption, localTasks, draggingTask,
                 originalStatus, ops>>
  /\ MenuEffect

(***************************************************************************)
(* KanbanBoard: drag and drop.  DndContext (closestCenter) keeps the card  *)
(* being dragged (active) and the droppable under it (over); it calls      *)
(* onDragOver each time over changes and onDragEnd with the over it holds. *)
(***************************************************************************)
\* the droppables DndContext can report as `over`: the three columns
\* (KanbanColumn, useDroppable) and the rendered cards (TaskCard, useSortable)
DropTargets == StatusSet \cup PathsOf(localTasks)

\* ids DndContext may still report for cards the board rendered and no longer
\* renders (its registry of droppables is updated by effects, a render behind
\* localTasks)
UnknownTargets == {t.filePath : t \in InitialFiles} \ PathsOf(localTasks)

\* a resolution that reads a card's status from the canonical collection
\* (the variant the property of C18 excludes)
getStatusFromCanonical(overId) ==
  IF overId \in StatusSet THEN overId
  ELSE IF FindTask(tasks, overId) /= None
       THEN FindTask(tasks, overId)[1].status
       ELSE Null

getStatusFromOverId(overId) ==
  IF overId \in StatusSet THEN overId
  ELSE IF FindTask(localTasks, overId) /= None
       THEN FindTask(localTasks, overId)[1].status
       ELSE Null

handleDragStart(taskId) ==
  /\ UNCHANGED sideVars
  /\ BoardShown /\ selectedTask = None /\ active = Null
  /\ taskId \in PathsOf(localTasks)
  /\ active' = taskId
  /\ over' = Null
  /\ draggingTask' = FindTask(localTasks, taskId)
  /\ originalStatus' = FindTask(localTasks, taskId)[1].status
  /\ ev' = NoEvent
  /\ UNCHANGED <<envVars, storeVars, localTasks, formVars, ops>>
  /\ MenuEffect

handleDragOver(overId) ==
  /\ UNCHANGED sideVars
  /\ active /= Null
  /\ overId \in DropTargets \cup UnknownTargets \cup {Null}
  /\ overId /= over
  /\ over' = overId
  /\ LET newStatus == getStatusFromOverId(overId)
         currentTask == FindTask(localTasks, active)
     IN  localTasks' =
           IF overId = Null \/ newStatus = Null THEN localTasks
           ELSE IF currentTask /= None /\ currentTask[1].status = newStatus
                THEN localTasks
                ELSE SetStatus(localTasks, active, newStatus)
  /\ ev' = NoEvent
  /\ UNCHANGED <<envVars, storeVars, draggingTask, originalStatus, active,
                 formVars, ops>>
  /\ MenuEffect

\* a handleDragEnd that leaves the preview as the last onDragOver made it
\* (the variant the property of C2 excludes)
keepPreview ==
  localTasks' = localTasks

\* handleDragEnd with no drop target: the preview goes back to the original status
revertPreview ==
  localTasks' = IF originalStatus /= Null
                THEN SetStatus(localTasks, active, originalStatus)
                ELSE localTasks

\* a handleDragEnd that saves every drop that resolves to a status
\* (the variant the property of C1 excludes)
dropOnAnyStatus(task, newStatus) ==
  task /= None /\ newStatus /= Null

\* handleDragEnd: the drop is saved when the dragged task is in the view, the
\* target resolves to a status, and that status is not the original one
dropChangesStatus(task, newStatus) ==
  task /= None /\ newStatus /= Null /\ originalStatus /= newStatus

handleDragEnd ==
  /\ UNCHANGED sideVars
  /\ active /= Null
  /\ draggingTask' = None
  /\ originalStatus' = Null
  /\ active' = Null
  /\ over' = Null
  /\ ev' = <<"handleDragEnd", over, originalStatus, FindTask(localTasks, active) /= None>>
  /\ UNCHANGED <<backend, now, formVars>>
  /\ LET task == FindTask(localTasks, active)
         newStatus == getStatusFromOverId(over)
     IN  IF over = Null
         THEN /\ revertPreview
              /\ UNCHANGED <<reqs, storeVars, ops>>
         ELSE IF dropChangesStatus(task, newStatus)
              THEN /\ ops < MaxOps
                   /\ FreeSlots /= {}
                   /\ saveTaskCall([task[1] EXCEPT !.status = newStatus],
                                   FreeSlot, "none")
                   /\ ops' = ops + 1
              ELSE UNCHANGED <<reqs, storeVars, localTasks, ops>>
  /\ MenuEffect

\* the blank task handleCreateTask builds, stamped with the current time
newTask == [filePath |-> DraftPath, status |-> "not-started", priority |-> "low",
            created |-> now, updated |-> now, due |-> DueUnset]

(***************************************************************************)
(* KanbanBoard: the task form.                                             *)
(***************************************************************************)
\* handleCreateTask, from the "new task" button of the board's header
handleCreateTask ==
  /\ UNCHANGED sideVars
  /\ BoardShown /\ selectedTask = None /\ active = Null
  /\ selectedTask' = Some(newTask)
  /\ isNewTask' = TRUE
  /\ ev' = NoEvent
  /\ UNCHANGED <<envVars, storeVars, dragVars, ops>>
  /\ MenuEffect

onTaskClick(taskId) ==
  /\ UNCHANGED sideVars
  /\ BoardShown /\ selectedTask = None /\ active = Null
  /\ taskId \in PathsOf(localTasks)
  /\ selectedTask' = FindTask(localTasks, taskId)
  /\ isNewTask' = FALSE
  /\ ev' = NoEvent
  /\ UNCHANGED <<envVars, storeVars, dragVars, ops>>
  /\ MenuEffect

onClose ==
  /\ UNCHANGED sideVars
  /\ FormShown
  /\ selectedTask' = None
  /\ isNewTask' = FALSE
  /\ ev' = NoEvent
  /\ UNCHANGED <<envVars, storeVars, dragVars, ops>>
  /\ MenuEffect

\* a handleSaveTask that passes the draft to createTask as it is, filePath included
\* (the variant the property of C12 excludes)
TaskDataKeepsPath(task) == task

\* the fields createTask passes to create_task: filePath, created and updated are dropped
TaskData(task) == [NoTask EXCEPT !.status = task.status, !.priority = task.priority,
                                 !.due = task.due]

\* TaskModal.handleSave -> onSave(editedTask): the form's task with the edit made in it
handleSaveTask(priority) ==
  /\ UNCHANGED sideVars
  /\ FormShown
  /\ ops < MaxOps
  /\ FreeSlots /= {}
  /\ LET task == [selectedTask[1] EXCEPT !.priority = priority]
     IN  IF isNewTask
         THEN createTaskCall(TaskData(task), FreeSlot, "closeSave")
         ELSE saveTaskCall(task, FreeSlot, "closeSave")
  /\ DndAfter(loading', error', localTasks')
  /\ ops' = ops + 1
  /\ ev' = <<"handleSaveTask", IF isNewTask THEN "create" ELSE "save",
             selectedTask[1].filePath, Quiet>>
  /\ UNCHANGED <<backend, now, draggingTask, originalStatus, formVars>>
  /\ MenuEffect

\* TaskModal.handleDelete (confirmed) -> onDelete(editedTask.filePath)
handleDeleteTask ==
  /\ UNCHANGED sideVars
  /\ FormShown /\ ~isNewTask
  /\ ops < MaxOps
  /\ FreeSlots /= {}
  /\ deleteTaskCall(selectedTask[1].filePath, FreeSlot, "closeDelete")
  /\ ops' = ops + 1
  /\ ev' = <<"handleDeleteTask", "delete", selectedTask[1].filePath, Quiet>>
  /\ UNCHANGED <<backend, now, draggingTask, originalStatus, active, over, formVars>>
  /\ MenuEffect

(***************************************************************************)
(* App: the start screen, the board of the selected folder and the stored  *)
(* pointer to the last folder.                                             *)
(***************************************************************************)
\* every call still awaited by the board belongs to a board that is gone
Orphaned(rs) ==
  [s \in Slots |-> IF rs[s].kind = "none" THEN rs[s] ELSE [rs[s] EXCEPT !.orphan = TRUE]]

\* the state of useTasks and of KanbanBoard as useState creates it, with the
\* calls rs awaited (a board that is not mounted has no state: the model keeps
\* these values for it)
BoardFresh(ld, rs) ==
  /\ tasks' = <<>>
  /\ loading' = ld
  /\ error' = Null
  /\ sortOption' = "created-desc"
  /\ localTasks' = <<>>
  /\ draggingTask' = None
  /\ originalStatus' = Null
  /\ active' = Null
  /\ over' = Null
  /\ selectedTask' = None
  /\ isNewTask' = FALSE
  /\ reqs' = rs

\* KanbanBoard is mounted on folder: fresh state, and its effect calls loadTasks()
MountBoard(folder) ==
  /\ FreeSlots /= {}
  /\ BoardFresh(TRUE, [reqs EXCEPT ![FreeSlot] =
                         [NewReq("get_tasks", NoTask, "created-desc", "none",
                                 "effect", Quiet) EXCEPT !.folder = folder]])
  /\ menu' = IF menu = None THEN None ELSE Some(MenuSetup(NoListeners, TRUE))

\* App's effect at startup: if (savedFolder) setSelectedFolder(savedFolder)
restores(savedFolder) == savedFolder /= Null /\ savedFolder /= ""

\* App's effect at startup: the stored folder, if any, is selected and its
\* board mounted
restoreLastFolder ==
  /\ ~isInitialized
  /\ isInitialized' = TRUE
  /\ IF restores(storedFolder)
     THEN /\ selectedFolder' = storedFolder
          /\ MountBoard(storedFolder)
     ELSE /\ selectedFolder' = Null
          /\ UNCHANGED <<reqs, storeVars, dragVars, formVars, menu>>
  /\ ev' = <<"restoreLastFolder", storedFolder, "none", FALSE>>
  /\ UNCHANGED <<backend, now, ops, sortCall, syncVars, storedFolder, leftOn>>

\* a handleFolderSelect that does not store the folder
\* (the variant the property of C29 excludes)
storedOnSelectNothing(folderPath) == storedFolder

\* handleFolderSelect: localStorage.setItem(STORAGE_KEY, folderPath)
storedOnSelect(folderPath) == folderPath

\* Home has the user select (or create) a folder: handleFolderSelect(folderPath)
handleFolderSelect(folderPath) ==
  /\ isInitialized /\ selectedFolder = Null
  /\ selectedFolder' = folderPath
  /\ storedFolder' = storedOnSelect(folderPath)
  /\ MountBoard(folderPath)
  /\ ev' = <<"handleFolderSelect", folderPath, "none", FALSE>>
  /\ UNCHANGED <<backend, now, ops, sortCall, syncVars, isInitialized, leftOn>>

\* a back button in the header of the board only
\* (the variant the property of C27 excludes)
backButtonInHeader ==
  BoardShown /\ selectedTask = None /\ active = Null

\* the back button is rendered on the error screen and in the header of the
\* board (which the form covers and a drag keeps the pointer from); the loading
\* screen has none
backButtonShown ==
  /\ BoardOpen
  /\ ~LoadingScreen(loading, localTasks)
  /\ ErrorScreen(error) \/ (selectedTask = None /\ active = Null)

\* the back button is pressed: handleBackToHome; the board is unmounted
handleBackToHome ==
  /\ backButtonShown
  /\ selectedFolder' = Null
  /\ storedFolder' = Null
  /\ leftOn' = IF ErrorScreen(error) THEN "error" ELSE "board"
  /\ BoardFresh(FALSE, Orphaned(reqs))
  /\ menu' = IF menu = None THEN None ELSE Some(NoListeners)
  /\ ev' = <<"handleBackToHome", IF ErrorScreen(error) THEN "error" ELSE "board",
             "none", FALSE>>
  /\ UNCHANGED <<backend, now, ops, sortCall, syncVars, isInitialized>>

\* the answer to a call of a board that is gone reaches its continuation, whose
\* state updates React drops
orphanReturn(s) ==
  /\ reqs[s].orphan /\ reqs[s].phase = "answered"
  /\ reqs' = [reqs EXCEPT ![s] = EmptyReq]
  /\ ev' = NoEvent
  /\ UNCHANGED <<backend, now, storeVars, dragVars, formVars, ops, sideVars, menu>>

(***************************************************************************)
(* The "new task" signals: the keydown listener and the listener of the    *)
(* "menu-new-task" event, which listen() registers asynchronously.         *)
(***************************************************************************)
\* the effect has run n times at mount (twice under StrictMode): each run has
\* called listen() with a callback that holds selectedTask = null, and the
\* cleanup between two runs found no unlisten to call
MenuMounted(n) ==
  [listeners |-> {},
   pending |-> {[closed |-> TRUE, cleaned |-> c] : c \in {k < n : k \in 1..n}}]

\* a promise of listen() resolves: its callback is registered, and stays so for
\* good when the cleanup of its effect has already run
listenResolves(p) ==
  /\ menu /= None
  /\ p \in menu[1].pending
  /\ menu' = Some([listeners |-> menu[1].listeners \cup
                                  {[closed |-> p.closed, leaked |-> p.cleaned]},
                   pending |-> menu[1].pending \ {p}])
  /\ ev' = NoEvent
  /\ UNCHANGED <<envVars, storeVars, dragVars, formVars, ops, sortCall, appVars,
                 syncVars>>

\* the "menu-new-task" event: every registered callback runs, and one that holds
\* selectedTask = null calls handleCreateTask(); selectedTask is then a new
\* object, so the effect runs again
menuNewTask ==
  /\ BoardOpen
  /\ menu /= None
  /\ IF \E l \in menu[1].listeners : l.closed
     THEN /\ selectedTask' = Some(newTask)
          /\ isNewTask' = TRUE
          /\ menu' = Some(MenuSetup(MenuCleanup(menu[1]), FALSE))
     ELSE UNCHANGED <<formVars, menu>>
  /\ ev' = <<"menuNewTask", "none", "none", FALSE>>
  /\ UNCHANGED <<envVars, storeVars, dragVars, ops, sideVars>>

\* Cmd+N: handleKeyDown, registered synchronously by its effect, holds the
\* selectedTask of the last render
keyNewTask ==
  /\ BoardOpen
  /\ IF selectedTask = None
     THEN /\ selectedTask' = Some(newTask)
          /\ isNewTask' = TRUE
     ELSE UNCHANGED formVars
  /\ MenuEffect
  /\ ev' = <<"keyNewTask", "none", "none", FALSE>>
  /\ UNCHANGED <<envVars, storeVars, dragVars, ops, sideVars>>

(***************************************************************************)
(* Git sync: useGitSync and the board's handleSync.  A git command's       *)
(* answer and the continuation of its await are one step; the backend      *)
(* answers each command with a result or an error.                         *)
(***************************************************************************)
FreeSyncSlots == {k \in Slots : syncs[k].phase = "none"}

\* the invoke("git_sync") calls whose caller is still awaiting them
SyncsInFlight == {k \in Slots : syncs[k].phase /= "none"}

\* a SyncResult
SyncResult(pulled, pushed, conflicts, message) ==
  [pulled |-> pulled, pushed |-> pushed, conflicts |-> conflicts, message |-> message]

\* what the git_sync command can answer: a SyncResult or an error
GitSyncAnswers == {"pulled", "synced", "conflicts", "error"}

git_sync(answer) ==
  CASE answer = "pulled" ->
         [ok |-> TRUE, result |-> SyncResult(TRUE, FALSE, FALSE, "pulled"), error |-> ""]
    [] answer = "synced" ->
         [ok |-> TRUE, result |-> SyncResult(FALSE, TRUE, FALSE, "synced"), error |-> ""]
    [] answer = "conflicts" ->
         [ok |-> TRUE, result |-> SyncResult(FALSE, FALSE, TRUE, "conflicts"), error |-> ""]
    [] answer = "error" ->
         [ok |-> FALSE, result |-> SyncResult(FALSE, FALSE, FALSE, ""),
          error |-> "git failed"]

\* a catch block of sync that reports the failed sync as one that pulled
\* (the variant the property of C21 excludes)
errorResultPulled(e) == SyncResult(TRUE, FALSE, FALSE, "sync error: " \o e)

\* sync's catch block: the SyncResult made of an error
\* (the message is the text "同期エラー: " followed by the error)
errorResult(e) == SyncResult(FALSE, FALSE, FALSE, "sync error: " \o e)

\* what sync(branch) returns for the answer of its invoke
syncResultOf(answer) == IF answer.ok THEN answer.result ELSE errorResult(answer.error)

\* an auto-sync effect that does not consult initialSyncDone
\* (the variant the property of C19 excludes)
autoSyncDueNoRef(checking, repo) == ~checking /\ repo

\* the condition of the board's auto-sync effect
autoSyncDue(checking, repo) == ~checking /\ repo /\ ~initialSyncDone

\* the render that follows a step which left checking, repo, syncing, message,
\* last, calls and settings as the git state: the auto-sync effect runs when one
\* of its dependencies (isChecking, isGitRepo, handleSync, which depends on
\* isSyncing and gitSettings.syncBranch) has changed and calls handleSync, which
\* returns at once unless isGitRepo && !isSyncing, and else clears the message
\* and calls sync(gitSettings.syncBranch): setIsSyncing(true),
\* setLastSyncResult(null), invoke("git_sync"); event is what the history
\* records when the effect does not call handleSync
RenderGitBy(checking, repo, syncing, message, last, calls, settings, event) ==
  LET called == /\ \/ checking /= isChecking \/ repo /= isGitRepo
                   \/ syncing /= isSyncing \/ settings /= gitSettings
                /\ autoSyncDue(checking, repo)
      issues == called /\ repo /\ ~syncing
      free == CHOOSE k \in Slots : /\ calls[k].phase = "none"
                                   /\ \A j \in Slots : calls[j].phase = "none" => k <= j
  IN  /\ isChecking' = checking
      /\ isGitRepo' = repo
      /\ gitSettings' = settings
      /\ initialSyncDone' = (initialSyncDone \/ called)
      /\ isSyncing' = (syncing \/ issues)
      /\ syncMessage' = IF issues THEN Null ELSE message
      /\ lastSyncResult' = IF issues THEN None ELSE last
      /\ syncs' = IF issues
                  THEN [calls EXCEPT ![free] = [phase |-> "sent", via |-> "auto",
                                                branch |-> settings.syncBranch,
                                                answer |-> None]]
                  ELSE calls
      /\ ev' = IF called THEN <<"autoSync", IF issues THEN "issued" ELSE "no-op",
                                "none", FALSE>>
               ELSE event

\* the render that follows the return of a git command
RenderGit(checking, repo, syncing, message, last, calls, settings) ==
  RenderGitBy(checking, repo, syncing, message, last, calls, settings, NoEvent)

\* the age of the message after a step that did not set one
AgeKept == shownFor' = IF syncMessage' = Null THEN 0 ELSE shownFor

\* an init that fetches the branches whatever checkGitRepo returned
\* (the variant the property of C26 excludes)
initAfterCheckFetches(isRepo) == [pc |-> "fetch", branches |-> TRUE, current |-> TRUE]

\* an init whose run keeps waiting for checkGitRepo when it returned false
\* (the variant the property of C33 excludes)
initAfterCheckWaits(isRepo) ==
  IF isRepo THEN [pc |-> "fetch", branches |-> TRUE, current |-> TRUE]
  ELSE [NoInit EXCEPT !.pc = "check"]

\* init once checkGitRepo() has returned isRepo: if (isRepo) it awaits
\* Promise.all([fetchBranches(), fetchCurrentBranch()]), else it is done
initAfterCheck(isRepo) ==
  IF isRepo THEN [pc |-> "fetch", branches |-> TRUE, current |-> TRUE]
  ELSE [NoInit EXCEPT !.pc = "done"]

\* init, after await checkGitRepo(): the answer (an error counts as "no") sets
\* isGitRepo; a repository has its branches fetched, anything else ends the check
checkGitRepoReturn(i, answer) ==
  /\ inits[i].pc = "check"
  /\ inits' = [inits EXCEPT ![i] = initAfterCheck(answer = "yes")]
  /\ RenderGit(IF answer = "yes" THEN isChecking ELSE FALSE, answer = "yes",
               isSyncing, syncMessage, lastSyncResult, syncs, gitSettings)
  /\ AgeKept
  /\ UNCHANGED <<envVars, storeVars, dragVars, formVars, ops, offVars, branches,
                 currentBranch, timers, showBranchDropdown, storedSettings>>

\* fetchBranches after its await: the list, or [] on an error
fetchBranchesReturn(i, ok) ==
  /\ inits[i].pc = "fetch" /\ inits[i].branches
  /\ branches' = IF ok THEN BranchList ELSE <<>>
  /\ inits' = [inits EXCEPT ![i] = IF inits[i].current
                                    THEN [inits[i] EXCEPT !.branches = FALSE]
                                    ELSE [NoInit EXCEPT !.pc = "done"]]
  /\ RenderGit(IF inits[i].current THEN isChecking ELSE FALSE, isGitRepo, isSyncing,
               syncMessage, lastSyncResult, syncs, gitSettings)
  /\ AgeKept
  /\ UNCHANGED <<envVars, storeVars, dragVars, formVars, ops, offVars,
                 currentBranch, timers, showBranchDropdown, storedSettings>>

\* fetchCurrentBranch after its await: the branch, or "" on an error
fetchCurrentBranchReturn(i, ok) ==
  /\ inits[i].pc = "fetch" /\ inits[i].current
  /\ currentBranch' = IF ok THEN "main" ELSE ""
  /\ inits' = [inits EXCEPT ![i] = IF inits[i].branches
                                    THEN [inits[i] EXCEPT !.current = FALSE]
                                    ELSE [NoInit EXCEPT !.pc = "done"]]
  /\ RenderGit(IF inits[i].branches THEN isChecking ELSE FALSE, isGitRepo, isSyncing,
               syncMessage, lastSyncResult, syncs, gitSettings)
  /\ AgeKept
  /\ UNCHANGED <<envVars, storeVars, dragVars, formVars, ops, offVars,
                 branches, timers, showBranchDropdown, storedSettings>>

\* a sync button that can be clicked whenever it is rendered
\* (the variant the property of C20 excludes)
syncButtonNeverDisabled == TRUE

\* the sync button: disabled={isSyncing || isChecking}
syncButtonEnabled == ~(isSyncing \/ isChecking)

\* the header of the board with its git controls is on screen and no form or
\* drag covers it
GitControlsShown == BoardShown /\ selectedTask = None /\ active = Null /\ isGitRepo

\* a click on the sync button (rendered in the board's header when isGitRepo):
\* handleSync, up to its await of sync(gitSettings.syncBranch)
handleSync ==
  /\ BoardShown /\ selectedTask = None /\ active = Null
  /\ isGitRepo /\ syncButtonEnabled
  /\ ops < MaxOps
  /\ IF ~isGitRepo \/ isSyncing
     THEN UNCHANGED syncVars
     ELSE /\ FreeSyncSlots /= {}
          /\ syncMessage' = Null
          /\ shownFor' = 0
          /\ isSyncing' = TRUE
          /\ lastSyncResult' = None
          /\ syncs' = [syncs EXCEPT
                         ![CHOOSE k \in FreeSyncSlots : \A j \in FreeSyncSlots : k <= j]
                           = [phase |-> "sent", via |-> "button",
                              branch |-> gitSettings.syncBranch, answer |-> None]]
          /\ UNCHANGED <<isGitRepo, branches, currentBranch, isChecking,
                         initialSyncDone, timers, inits, gitSettings,
                         showBranchDropdown, storedSettings>>
  /\ ops' = ops + 1
  /\ ev' = <<"handleSync", IF ~isGitRepo \/ isSyncing THEN "no-op" ELSE "issued",
             "button", FALSE>>
  /\ UNCHANGED <<envVars, storeVars, dragVars, formVars, offVars>>

\* a handleSync that reloads the tasks after every sync that moved commits
\* (the variant the property of C24 excludes)
reloadsAfterChange(result) == result.pulled \/ result.pushed

\* handleSync: if (result.pulled) await loadTasks()
reloadsAfter(result) == result.pulled

\* the backend answers the git_sync call in slot k
gitSyncAnswer(k, answer) ==
  /\ syncs[k].phase = "sent"
  /\ syncs' = [syncs EXCEPT ![k].phase = "answered", ![k].answer = Some(git_sync(answer))]
  /\ ev' = NoEvent
  /\ UNCHANGED <<envVars, storeVars, dragVars, formVars, ops, offVars, isGitRepo,
                 branches, currentBranch, isSyncing, lastSyncResult, isChecking,
                 syncMessage, initialSyncDone, timers, inits, shownFor, gitSettings,
                 showBranchDropdown, storedSettings>>

\* sync after its await (the result, or the result made of an error; finally
\* setIsSyncing(false)), then handleSync after its await of sync: the message is
\* shown, a result that pulled makes it await loadTasks(), any other arms the
\* timer that clears the message
gitSyncReturn(k) ==
  /\ syncs[k].phase = "answered"
  /\ LET result == syncResultOf(syncs[k].answer[1])
     IN  /\ IF reloadsAfter(result)
            THEN /\ FreeSlots /= {}
                 /\ loadTasksCall(Interleaved(reqs), FreeSlot, sortOption, "armTimer",
                                  "handleSync", Quiet)
                 /\ timers' = timers
            ELSE /\ timers' = Append(timers, SYNC_MESSAGE_SECONDS)
                 /\ UNCHANGED <<reqs, loading, error>>
         /\ RenderGit(isChecking, isGitRepo, FALSE, result.message, Some(result),
                      [syncs EXCEPT ![k] = NoSync], gitSettings)
  /\ shownFor' = 0
  /\ DndAfter(loading', error', localTasks)
  /\ UNCHANGED <<backend, now, tasks, sortOption, localTasks, draggingTask,
                 originalStatus, formVars, ops, offVars, branches, currentBranch,
                 inits, showBranchDropdown, storedSettings>>

\* a click on the branch button of the header: the selector opens or closes
toggleBranchDropdown ==
  /\ GitControlsShown
  /\ showBranchDropdown' = ~showBranchDropdown
  /\ ev' = <<"toggleBranchDropdown", "none", "none", FALSE>>
  /\ UNCHANGED <<envVars, storeVars, dragVars, formVars, ops, offVars, isGitRepo,
                 branches, currentBranch, isSyncing, lastSyncResult, isChecking,
                 syncMessage, initialSyncDone, timers, inits, syncs, shownFor,
                 gitSettings, storedSettings>>

\* a mouse press outside the open selector closes it
handleClickOutside ==
  /\ showBranchDropdown
  /\ showBranchDropdown' = FALSE
  /\ ev' = <<"handleClickOutside", "none", "none", FALSE>>
  /\ UNCHANGED <<envVars, storeVars, dragVars, formVars, ops, offVars, isGitRepo,
                 branches, currentBranch, isSyncing, lastSyncResult, isChecking,
                 syncMessage, initialSyncDone, timers, inits, syncs, shownFor,
                 gitSettings, storedSettings>>

\* a click on a branch of the open selector: handleBranchChange(branch), and the
\* render after it, in which handleSync has a new identity and the auto-sync
\* effect runs again
handleBranchChange(branch) ==
  /\ GitControlsShown /\ showBranchDropdown
  /\ \E i \in 1..Len(branches) : branches[i] = branch
  /\ storedSettings' = JSONstringify([gitSettings EXCEPT !.syncBranch = branch])
  /\ showBranchDropdown' = FALSE
  /\ RenderGitBy(isChecking, isGitRepo, isSyncing, syncMessage, lastSyncResult, syncs,
                 [gitSettings EXCEPT !.syncBranch = branch],
                 <<"handleBranchChange", branch, "none", FALSE>>)
  /\ AgeKept
  /\ UNCHANGED <<envVars, storeVars, dragVars, formVars, ops, offVars, branches,
                 currentBranch, timers, inits>>

\* a timer armed by handleSync reaches its deadline: setSyncMessage(null)
syncMessageTimeout ==
  /\ timers /= <<>> /\ Head(timers) = 0
  /\ timers' = Tail(timers)
  /\ syncMessage' = Null
  /\ shownFor' = 0
  /\ ev' = <<"syncMessageTimeout", "none", "none", FALSE>>
  /\ UNCHANGED <<envVars, storeVars, dragVars, formVars, ops, offVars, isGitRepo,
                 branches, currentBranch, isSyncing, lastSyncResult, isChecking,
                 initialSyncDone, inits, syncs, gitSettings, showBranchDropdown,
                 storedSettings>>

\* a second passes: every timer is a second nearer to its deadline, which none
\* has reached yet, and the message shown a second older (an age past the
\* timer's delay is recorded as one second past it)
Elapse ==
  /\ timers /= <<>> \/ syncMessage /= Null
  /\ \A i \in 1..Len(timers) : timers[i] > 0
  /\ timers' = [i \in 1..Len(timers) |-> timers[i] - 1]
  /\ shownFor' = IF syncMessage = Null THEN 0
                 ELSE IF shownFor > SYNC_MESSAGE_SECONDS THEN shownFor
                 ELSE shownFor + 1
  /\ ev' = NoEvent
  /\ UNCHANGED <<envVars, storeVars, dragVars, formVars, ops, offVars, isGitRepo,
                 branches, currentBranch, isSyncing, lastSyncResult, isChecking,
                 syncMessage, initialSyncDone, inits, syncs, gitSettings,
                 showBranchDropdown, storedSettings>>

(***************************************************************************)
(* The specifications.                                                     *)
(***************************************************************************)
\* the store driven from the header and the task form
Next ==
  \/ \E s \in Slots : BackendAnswer(s)
  \/ \E s \in Slots : loadTasksReturn(s)
  \/ \E s \in Slots : saveTaskReturn(s)
  \/ \E s \in Slots : createTaskReturn(s)
  \/ \E s \in Slots : deleteTaskReturn(s)
  \/ Tick
  \/ \E option \in SortChoices : changeSortOption(option)
  \/ handleCreateTask
  \/ \E taskId \in Paths : onTaskClick(taskId)
  \/ onClose
  \/ \E priority \in Priorities : handleSaveTask(priority)
  \/ handleDeleteTask

Spec == Init /\ [][Next]_vars

\* the backend answers the call in slot s with success
BackendServes(s) == BackendAnswer(s) /\ reqs'[s].ok

\* The same board with a backend that rejects nothing.
NextServed ==
  \/ \E s \in Slots : BackendServes(s)
  \/ \E s \in Slots : loadTasksReturn(s)
  \/ \E s \in Slots : saveTaskReturn(s)
  \/ \E s \in Slots : createTaskReturn(s)
  \/ \E s \in Slots : deleteTaskReturn(s)
  \/ Tick
  \/ \E option \in SortChoices : changeSortOption(option)
  \/ handleCreateTask
  \/ \E taskId \in Paths : onTaskClick(taskId)
  \/ onClose
  \/ \E priority \in Priorities : handleSaveTask(priority)
  \/ handleDeleteTask

SpecServed == Init /\ [][NextServed]_vars

\* The creation form alone: it is opened by the button, submitted, and closed
\* only by the continuation of a submit.
NextSubmit ==
  \/ \E s \in Slots : BackendAnswer(s)
  \/ \E s \in Slots : loadTasksReturn(s)
  \/ \E s \in Slots : createTaskReturn(s)
  \/ Tick
  \/ handleCreateTask
  \/ \E priority \in Priorities : handleSaveTask(priority)

SpecSubmit == Init /\ [][NextSubmit]_vars

\* the store driven by drag and drop, with the form used to delete tasks
NextDrag ==
  \/ \E s \in Slots : BackendAnswer(s)
  \/ \E s \in Slots : loadTasksReturn(s)
  \/ \E s \in Slots : saveTaskReturn(s)
  \/ \E s \in Slots : deleteTaskReturn(s)
  \/ Tick
  \/ \E option \in SortChoices : changeSortOption(option)
  \/ \E taskId \in Paths : handleDragStart(taskId)
  \/ \E overId \in StatusSet \cup Paths \cup {Null} : handleDragOver(overId)
  \/ handleDragEnd
  \/ \E taskId \in Paths : onTaskClick(taskId)
  \/ onClose
  \/ handleDeleteTask

SpecDrag == Init /\ [][NextDrag]_vars

\* The board with its form, the way back to the start screen and the way in
\* again.  Every call is answered and every answer reaches its continuation;
\* a user who sees the error screen goes back and selects the folder again.
NextRetry ==
  \/ \E s \in Slots : BackendAnswer(s)
  \/ \E s \in Slots : loadTasksReturn(s)
  \/ \E s \in Slots : saveTaskReturn(s)
  \/ \E s \in Slots : createTaskReturn(s)
  \/ \E s \in Slots : deleteTaskReturn(s)
  \/ \E s \in Slots : orphanReturn(s)
  \/ handleCreateTask
  \/ \E taskId \in Paths : onTaskClick(taskId)
  \/ onClose
  \/ \E priority \in Priorities : handleSaveTask(priority)
  \/ handleDeleteTask
  \/ handleBackToHome
  \/ handleFolderSelect(TasksFolder)

RetryFairness ==
  /\ \A s \in Slots : WF_vars(BackendAnswer(s))
  /\ \A s \in Slots : WF_vars(loadTasksReturn(s))
  /\ \A s \in Slots : WF_vars(saveTaskReturn(s))
  /\ \A s \in Slots : WF_vars(createTaskReturn(s))
  /\ \A s \in Slots : WF_vars(deleteTaskReturn(s))
  /\ \A s \in Slots : WF_vars(orphanReturn(s))
  /\ WF_vars(ErrorScreen(error) /\ handleBackToHome)
  /\ WF_vars(handleFolderSelect(TasksFolder))

SpecRetry == Init /\ [][NextRetry]_vars /\ RetryFairness

\* App from its first render, with the pointer to the last folder that an
\* earlier run of the program has left in localStorage: the start screen, the
\* boards opened from it and the way back.
InitApp ==
  /\ selectedFolder = Null
  /\ isInitialized = FALSE
  /\ storedFolder \in {Null} \cup Folders
  /\ leftOn = "none"
  /\ backend = InitialFiles
  /\ now = 1
  /\ tasks = <<>>
  /\ loading = FALSE
  /\ error = Null
  /\ sortOption = "created-desc"
  /\ reqs = [s \in Slots |-> EmptyReq]
  /\ localTasks = <<>>
  /\ draggingTask = None
  /\ originalStatus = Null
  /\ active = Null
  /\ over = Null
  /\ selectedTask = None
  /\ isNewTask = FALSE
  /\ ops = 0
  /\ ev = NoEvent
  /\ sortCall = NoCall
  /\ GitMounted(0)
  /\ menu = None

NextApp ==
  \/ restoreLastFolder
  \/ \E folderPath \in Folders : handleFolderSelect(folderPath)
  \/ handleBackToHome
  \/ \E s \in Slots : BackendAnswer(s)
  \/ \E s \in Slots : loadTasksReturn(s)
  \/ \E s \in Slots : orphanReturn(s)
  \/ \E option \in SortChoices : changeSortOption(option)
  \/ \E taskId \in Paths : onTaskClick(taskId)
  \/ onClose

SpecApp == InitApp /\ [][NextApp]_vars

\* The board with its form and the "new task" signals of the menu and of the
\* keyboard, from the mount of the board.
InitMenu ==
  /\ BoardMounted
  /\ sortCall = NoCall
  /\ GitMounted(0)
  /\ \E n \in 1..MaxMounts : menu = Some(MenuMounted(n))

NextMenu ==
  \/ \E s \in Slots : BackendAnswer(s)
  \/ \E s \in Slots : loadTasksReturn(s)
  \/ Tick
  \/ handleCreateTask
  \/ \E taskId \in Paths : onTaskClick(taskId)
  \/ onClose
  \/ \E p \in [closed : BOOLEAN, cleaned : BOOLEAN] : listenResolves(p)
  \/ menuNewTask
  \/ keyNewTask

SpecMenu == InitMenu /\ [][NextMenu]_vars

\* the store driven by drag and drop, with the form used to create tasks
NextDraft ==
  \/ \E s \in Slots : BackendAnswer(s)
  \/ \E s \in Slots : loadTasksReturn(s)
  \/ \E s \in Slots : saveTaskReturn(s)
  \/ \E s \in Slots : createTaskReturn(s)
  \/ Tick
  \/ \E option \in SortChoices : changeSortOption(option)
  \/ \E taskId \in Paths : handleDragStart(taskId)
  \/ \E overId \in StatusSet \cup Paths \cup {Null} : handleDragOver(overId)
  \/ handleDragEnd
  \/ handleCreateTask
  \/ onClose
  \/ \E priority \in Priorities : handleSaveTask(priority)

SpecDraft == Init /\ [][NextDraft]_vars

\* the board mounted on a folder: git detection, the automatic and the manual
\* sync, and the loads of the store
InitSync ==
  /\ BoardMounted
  /\ sortCall = NoCall
  /\ menu = None
  /\ \E n \in 1..MaxMounts : GitMounted(n)

NextSync ==
  \/ \E s \in Slots : BackendAnswer(s)
  \/ \E s \in Slots : loadTasksReturn(s)
  \/ \E i \in 1..MaxMounts : \E answer \in {"yes", "no", "error"} :
       checkGitRepoReturn(i, answer)
  \/ \E i \in 1..MaxMounts : \E ok \in BOOLEAN : fetchBranchesReturn(i, ok)
  \/ \E i \in 1..MaxMounts : \E ok \in BOOLEAN : fetchCurrentBranchReturn(i, ok)
  \/ handleSync
  \/ \E k \in Slots : \E answer \in GitSyncAnswers : gitSyncAnswer(k, answer)
  \/ \E k \in Slots : gitSyncReturn(k)
  \/ syncMessageTimeout
  \/ Elapse

SpecSync == InitSync /\ [][NextSync]_vars

\* The detection of the repository at the mount of the board, with the load of
\* the tasks and the automatic sync.  Every git command is answered (its
\* promise resolves or rejects) and its continuation runs.
NextDetect ==
  \/ \E s \in Slots : BackendAnswer(s)
  \/ \E s \in Slots : loadTasksReturn(s)
  \/ \E i \in 1..MaxMounts : \E answer \in {"yes", "no", "error"} :
       checkGitRepoReturn(i, answer)
  \/ \E i \in 1..MaxMounts : \E ok \in BOOLEAN : fetchBranchesReturn(i, ok)
  \/ \E i \in 1..MaxMounts : \E ok \in BOOLEAN : fetchCurrentBranchReturn(i, ok)
  \/ \E k \in Slots : \E answer \in GitSyncAnswers : gitSyncAnswer(k, answer)
  \/ \E k \in Slots : gitSyncReturn(k)

DetectFairness ==
  \A i \in 1..MaxMounts :
    /\ WF_vars(\E answer \in {"yes", "no", "error"} : checkGitRepoReturn(i, answer))
    /\ WF_vars(\E ok \in BOOLEAN : fetchBranchesReturn(i, ok))
    /\ WF_vars(\E ok \in BOOLEAN : fetchCurrentBranchReturn(i, ok))

SpecDetect == InitSync /\ [][NextDetect]_vars /\ DetectFairness

\* the board mounted on a folder with any stored git settings: git detection,
\* the branch selector and the syncs
InitBranch ==
  /\ BoardMounted
  /\ sortCall = NoCall
  /\ menu = None
  /\ \E n \in 1..MaxMounts : \E saved \in StoredSettings : GitMountedOn(n, saved)

NextBranch ==
  \/ \E s \in Slots : BackendAnswer(s)
  \/ \E s \in Slots : loadTasksReturn(s)
  \/ \E i \in 1..MaxMounts : \E answer \in {"yes", "no", "error"} :
       checkGitRepoReturn(i, answer)
  \/ \E i \in 1..MaxMounts : \E ok \in BOOLEAN : fetchBranchesReturn(i, ok)
  \/ \E i \in 1..MaxMounts : \E ok \in BOOLEAN : fetchCurrentBranchReturn(i, ok)
  \/ handleSync
  \/ \E k \in Slots : \E answer \in GitSyncAnswers : gitSyncAnswer(k, answer)
  \/ \E k \in Slots : gitSyncReturn(k)
  \/ toggleBranchDropdown
  \/ handleClickOutside
  \/ \E branch \in {BranchList[i] : i \in 1..Len(BranchList)} : handleBranchChange(branch)

SpecBranch == InitBranch /\ [][NextBranch]_vars

(***************************************************************************)
(* sortTasks called on its own, on any list of at most MaxLen tasks.       *)
(***************************************************************************)
\* created and updated stamps, and due values ("-" and two dates) of the inputs
Stamps == 0..1

Dues == {DueUnset, 1, 2}

TaskFields == [priority : Priorities, created : Stamps, updated : Stamps, due : Dues]

InputPath(i) == "t" \o ToString(i)

\* the task lists of length n: the i-th task is the file InputPath(i)
TaskLists(n) ==
  { [i \in 1..n |-> [filePath |-> InputPath(i), status |-> "not-started",
                     priority |-> f[i].priority, created |-> f[i].created,
                     updated |-> f[i].updated, due |-> f[i].due]] :
    f \in [1..n -> TaskFields] }

InitSort ==
  /\ BoardMounted
  /\ GitMounted(0)
  /\ menu = None
  /\ \E n \in 0..MaxLen : \E ts \in TaskLists(n) : \E option \in SortOption :
       sortCall = [tasks |-> ts, sortOption |-> option, sorted |-> <<>>,
                   pc |-> "called"]

\* a sortTasks that sorts the array it is given, with no copy
\* (the variant the property of C13 excludes)
sortTasksInPlace(engine) ==
  /\ sortCall.pc \in {"called", "recalled"}
  /\ sortCall' = [sortCall EXCEPT
                    !.tasks = ArraySort(engine, sortCall.tasks, sortCall.sortOption),
                    !.sorted = ArraySort(engine, sortCall.tasks, sortCall.sortOption),
                    !.pc = IF sortCall.pc = "called" THEN "returned" ELSE "rereturned"]
  /\ UNCHANGED <<envVars, storeVars, dragVars, formVars, ops, ev, syncVars, appVars,
                 menu>>

\* sortTasks(tasks, sortOption): copy the array, sort the copy, return it
sortTasksRun(engine) ==
  /\ sortCall.pc \in {"called", "recalled"}
  /\ sortCall' = [sortCall EXCEPT
                    !.sorted = ArraySort(engine, sortCall.tasks, sortCall.sortOption),
                    !.pc = IF sortCall.pc = "called" THEN "returned" ELSE "rereturned"]
  /\ UNCHANGED <<envVars, storeVars, dragVars, formVars, ops, ev, syncVars, appVars,
                 menu>>

\* sortTasks called on the list it has just returned, under the same option
\* (changeSortOption and saveTask sort a list that sortTasks produced)
sortTasksAgain ==
  /\ sortCall.pc = "returned"
  /\ sortCall' = [sortCall EXCEPT !.tasks = sortCall.sorted, !.sorted = <<>>,
                                  !.pc = "recalled"]
  /\ UNCHANGED <<envVars, storeVars, dragVars, formVars, ops, ev, syncVars, appVars,
                 menu>>

NextSort ==
  \/ \E engine \in Engines : sortTasksRun(engine)
  \/ sortTasksAgain

SpecSort == InitSort /\ [][NextSort]_vars

(***************************************************************************)
(* Steps, as two consecutive states show them.                             *)
(***************************************************************************)
\* a call of invoke(kind) is made in slot s
Issued(s, kind) == reqs[s].kind = "none" /\ reqs'[s].kind = kind

\* the answer (ok or not) to the call of invoke(kind) in slot s reaches its caller
Returned(s, kind, ok) ==
  /\ reqs[s].kind = kind /\ reqs[s].phase = "answered" /\ reqs[s].ok = ok
  /\ reqs'[s].phase /= "answered"

\* handleDragEnd runs
DragEnds == active /= Null /\ ev'[1] = "handleDragEnd"

\* the slots in which this step calls invoke("save_task")
SavesIssued == {s \in Slots : Issued(s, "save_task")}

C2_NoTargetReverts ==
  [][(DragEnds /\ over = Null) =>
       /\ SavesIssued = {}
       /\ tasks' = tasks
       /\ \A i \in 1..Len(localTasks') :
            localTasks'[i].filePath = active => localTasks'[i].status = originalStatus
       /\ PathsOf(localTasks') = PathsOf(localTasks)]_vars

\* a drag has just ended over nothing, with the dragged task in the view
C2_Witness ==
  /\ ev[1] = "handleDragEnd" /\ ev[2] = Null /\ ev[3] \in StatusSet /\ ev[4]
  /\ active = Null /\ originalStatus = Null /\ draggingTask = None

(***************************************************************************)
(* The task store (Spec).                                                  *)
(***************************************************************************)
\* C3 as stated: while a save of a task is pending, the canonical collection
\* holds that task's edited value (the value a pending save of it carries).
C3_PendingSaveInCanonical ==
  \A s \in Slots :
    reqs[s].kind = "save_task"
      => \E o \in Slots : /\ reqs[o].kind = "save_task"
                          /\ reqs[o].task.filePath = reqs[s].task.filePath
                          /\ reqs[o].task \in Range(tasks)

\* C4: a rejected save makes the store call loadTasks again; when that load
\* succeeds and no other store operation ran meanwhile, the canonical collection
\* is the backend's task set sorted under the current sort option, so the entry
\* of the edited task is the backend's again.
C4_RejectedSaveReloads ==
  [][\A s \in Slots :
       /\ Returned(s, "save_task", FALSE)
            => /\ reqs'[s].kind = "get_tasks" /\ reqs'[s].phase = "sent"
               /\ loading'
       /\ (Returned(s, "get_tasks", TRUE) /\ reqs[s].via = "saveTask" /\ reqs[s].alone)
            => /\ tasks' = sortTasks(BackendSeq, sortOption')
               /\ Range(tasks') = backend
               /\ Len(tasks') = Cardinality(backend)]_vars

\* the reload after a rejected save has just succeeded, nothing else having run
C4_Witness ==
  /\ ev = <<"loadTasks", "ok", "saveTask", TRUE>>
  /\ Range(tasks) = backend /\ tasks /= <<>>

\* C5 as stated: once the backend has rejected a save and the reconciling reload
\* has run, error holds the failure message of the save.
C5_SaveErrorSurvivesReload ==
  [][\A s \in Slots :
       (reqs[s].kind = "get_tasks" /\ reqs[s].via = "saveTask"
          /\ Returned(s, "get_tasks", reqs[s].ok))
         => error' = "save_task failed"]_vars

\* C6 as stated: after a load succeeds the canonical collection is the fetched
\* tasks sorted under the sort option current at that moment, and the store is
\* neither loading nor in error.
C6_LoadSortsUnderCurrentOption ==
  [][\A s \in Slots :
       Returned(s, "get_tasks", TRUE)
         => /\ tasks' = sortTasks(reqs[s].data, sortOption')
            /\ ~loading'
            /\ error' = Null]_vars

\* C7: a load the backend rejects leaves the canonical collection as it was and
\* sets error to the failure message.
C7_FailedLoadKeepsTasks ==
  [][\A s \in Slots :
       Returned(s, "get_tasks", FALSE)
         => /\ tasks' = tasks
            /\ error' = "get_tasks failed"
            /\ ~loading']_vars

\* a load has just failed over a collection that holds tasks
C7_Witness ==
  /\ ev[1] = "loadTasks" /\ ev[2] = "failed"
  /\ tasks /= <<>> /\ error = "get_tasks failed"

\* the filePaths that enter, and that leave, the canonical collection in this step
Entering == PathsOf(tasks') \ PathsOf(tasks)

Leaving == PathsOf(tasks) \ PathsOf(tasks')

\* the slots in which this step calls invoke("get_tasks")
LoadsIssued == {s \in Slots : reqs'[s].kind = "get_tasks" /\ reqs'[s].phase = "sent"
                              /\ ~(reqs[s].kind = "get_tasks" /\ reqs[s].phase = "sent")}

\* C8 as stated: createTask never changes the canonical collection before the
\* backend answers; on success it calls loadTasks and the new task enters the
\* collection only through that load; on failure the collection is unchanged,
\* no load is issued and error is set.
C8_CreateAsStated ==
  [][/\ \A s \in Slots :
          /\ Issued(s, "create_task") => tasks' = tasks
          /\ Returned(s, "create_task", TRUE)
               => /\ tasks' = tasks
                  /\ reqs'[s].kind = "get_tasks" /\ reqs'[s].phase = "sent"
          /\ Returned(s, "create_task", FALSE)
               => /\ tasks' = tasks
                  /\ LoadsIssued = {}
                  /\ error' = "create_task failed"
     /\ (Entering \ {t.filePath : t \in InitialFiles}) /= {}
          => \E s \in Slots : /\ Returned(s, "get_tasks", TRUE)
                              /\ reqs[s].via = "createTask"]_vars

\* C8: createTask never changes the canonical collection before the backend
\* answers; on success it calls loadTasks; on failure the collection is
\* unchanged, no load is issued and error is set; a task enters the collection
\* only through the response of a load (the one createTask issued, or any other
\* load the backend answers after it created the task).
C8_CreateIsNotOptimistic ==
  [][/\ \A s \in Slots :
          /\ Issued(s, "create_task") => tasks' = tasks
          /\ Returned(s, "create_task", TRUE)
               => /\ tasks' = tasks
                  /\ reqs'[s].kind = "get_tasks" /\ reqs'[s].phase = "sent"
          /\ Returned(s, "create_task", FALSE)
               => /\ tasks' = tasks
                  /\ LoadsIssued = {}
                  /\ error' = "create_task failed"
     /\ Entering /= {}
          => \E s \in Slots : /\ Returned(s, "get_tasks", TRUE)
                              /\ Entering \subseteq PathsOf(reqs[s].data)]_vars

\* the load createTask issued has just brought the created task into the collection
C8_Witness ==
  /\ ev[1] = "loadTasks" /\ ev[2] = "ok" /\ ev[3] = "createTask"
  /\ PathsOf(tasks) \ {t.filePath : t \in InitialFiles} /= {}

C10_SortChangeDoesNotFetch ==
  [][sortOption' /= sortOption
       => /\ tasks' = sortTasks(tasks, sortOption')
          /\ Range(tasks') = Range(tasks) /\ Len(tasks') = Len(tasks)
          /\ LoadsIssued = {}]_vars

(***************************************************************************)
(* Identity of the tasks in the canonical collection (SpecDraft).          *)
(***************************************************************************)
\* a request's answer reaches its caller in this step
AnyReturn == \E s \in Slots : reqs[s].phase = "answered" /\ reqs'[s].phase /= "answered"

\* the backend answers a request in this step
AnyAnswer == \E s \in Slots : reqs[s].phase = "sent" /\ reqs'[s].phase = "answered"

\* handleDragStart, handleDragOver or handleDragEnd runs
DragStep ==
  /\ ~AnyReturn /\ ~AnyAnswer
  /\ active' /= active \/ over' /= over \/ ev'[1] = "handleDragEnd"

\* the filePaths of the canonical collection are pairwise distinct and none is ""
IdsDistinct(ts) == Cardinality(PathsOf(ts)) = Len(ts) /\ DraftPath \notin PathsOf(ts)

\* C11: in every reachable state the filePaths in the canonical collection are
\* pairwise distinct and none is the empty string (the backend mints unique,
\* non-empty paths); a step that calls saveTask, runs changeSortOption or runs a
\* drag handler neither adds a filePath to the collection nor removes one.
C11_IdsStable ==
  /\ [](IdsDistinct(tasks))
  /\ [][SavesIssued /= {} \/ ev'[1] = "changeSortOption" \/ DragStep
         => PathsOf(tasks') = PathsOf(tasks) /\ Len(tasks') = Len(tasks)]_vars

\* a drop has just saved a task of a collection that holds a created task as well
C11_Witness ==
  /\ ev[1] = "handleDragEnd"
  /\ \E s \in Slots : reqs[s].kind = "save_task" /\ reqs[s].phase = "sent"
  /\ PathsOf(tasks) \ {t.filePath : t \in InitialFiles} /= {}
  /\ IdsDistinct(tasks)

(***************************************************************************)
(* The task form (Spec).                                                   *)
(***************************************************************************)
\* the slots in which this step calls invoke("create_task")
CreatesIssued == {s \in Slots : Issued(s, "create_task")}

\* C12: saveTask is never called with a task whose filePath is empty: a form
\* opened by handleCreateTask (a draft, filePath "") is always submitted through
\* createTask, without the filePath, and a form opened on a task of the board is
\* always submitted through saveTask with that task's filePath, whatever opens,
\* closes, submissions and deletes came before.
C12_DraftNeverSaved ==
  [][/\ \A s \in SavesIssued : reqs'[s].task.filePath \in Paths
     /\ ev'[1] = "handleSaveTask"
          => IF selectedTask[1].filePath = DraftPath
             THEN /\ SavesIssued = {}
                  /\ Cardinality(CreatesIssued) = 1
                  /\ \A s \in CreatesIssued : reqs'[s].task.filePath = Null
             ELSE /\ CreatesIssued = {}
                  /\ Cardinality(SavesIssued) = 1
                  /\ \A s \in SavesIssued :
                        reqs'[s].task.filePath = selectedTask[1].filePath]_vars

\* a draft has just been submitted, after an earlier operation started from a form
C12_Witness ==
  /\ ev[1] = "handleSaveTask" /\ ev[2] = "create" /\ ev[3] = DraftPath
  /\ ops = 2
  /\ \E s \in Slots : /\ reqs[s].kind = "create_task" /\ reqs[s].phase = "sent"
                       /\ reqs[s].task.filePath = Null

(***************************************************************************)
(* sortTasks (SpecSort).                                                   *)
(***************************************************************************)
\* a call of sortTasks has returned: sortCall.tasks is its input, .sorted its result
SortReturned == sortCall.pc \in {"returned", "rereturned"}

\* the position of the task with this filePath in a list
PosIn(ts, path) == CHOOSE k \in 1..Len(ts) : ts[k].filePath = path

\* the weights as the specification states them
StatedWeight(p) == CASE p = "high" -> 3 [] p = "medium" -> 2 [] p = "low" -> 1

\* the key a sort option orders by
SortKey(t, option) ==
  CASE option \in {"created-desc", "created-asc"} -> t.created
    [] option \in {"updated-desc", "updated-asc"} -> t.updated
    [] option \in {"due-asc", "due-desc"} -> t.due
    [] option \in {"priority-desc", "priority-asc"} -> StatedWeight(t.priority)

\* C13: for every task list and each of the eight sort options, sortTasks
\* returns a permutation of the tasks it was given (nothing added, dropped or
\* duplicated; the empty list gives the empty list), and the list it was given
\* is the same after the call as before it.
C13_SortPermutes ==
  /\ [](SortReturned
          => /\ Len(sortCall.sorted) = Len(sortCall.tasks)
             /\ \A t \in Range(sortCall.tasks) :
                  Cardinality({k \in 1..Len(sortCall.sorted) : sortCall.sorted[k] = t})
                    = Cardinality({k \in 1..Len(sortCall.tasks) : sortCall.tasks[k] = t})
             /\ (sortCall.tasks = <<>> => sortCall.sorted = <<>>))
  /\ [][sortCall.pc \in {"called", "recalled"} /\ sortCall'.pc /= sortCall.pc
         => sortCall'.tasks = sortCall.tasks]_vars

\* three tasks came back in another order than they went in
C13_Witness ==
  /\ sortCall.pc = "returned" /\ Len(sortCall.tasks) = 3
  /\ sortCall.sorted /= sortCall.tasks
  /\ Range(sortCall.sorted) = Range(sortCall.tasks)

\* C14: sortTasks is stable for all eight options: two tasks with the same key
\* (same timestamp, same priority weight, same due date, or both due "-") are
\* in the result in the order they had in the input.
C14_SortStable ==
  SortReturned
    => \A i, j \in 1..Len(sortCall.tasks) :
         (/\ i < j
          /\ SortKey(sortCall.tasks[i], sortCall.sortOption)
               = SortKey(sortCall.tasks[j], sortCall.sortOption))
           => PosIn(sortCall.sorted, sortCall.tasks[i].filePath)
                < PosIn(sortCall.sorted, sortCall.tasks[j].filePath)

\* two tasks without a due date went in before a task with one, and came back
\* after it in their original order
C14_Witness ==
  /\ sortCall.pc = "returned" /\ sortCall.sortOption = "due-asc"
  /\ Len(sortCall.tasks) = 3
  /\ sortCall.tasks[1].due = DueUnset /\ sortCall.tasks[2].due = DueUnset
  /\ sortCall.tasks[3].due /= DueUnset
  /\ sortCall.sorted = <<sortCall.tasks[3], sortCall.tasks[1], sortCall.tasks[2]>>

\* C15: under due-asc and due-desc every task whose due is "-" comes after
\* every task with a date, and the tasks with a date are in ascending order of
\* date under due-asc and in descending order under due-desc.
C15_DueUnsetLast ==
  (SortReturned /\ sortCall.sortOption \in {"due-asc", "due-desc"})
    => \A i, j \in 1..Len(sortCall.sorted) :
         i < j =>
           LET a == sortCall.sorted[i].due
               b == sortCall.sorted[j].due
           IN  /\ ~(a = DueUnset /\ b /= DueUnset)
               /\ (a /= DueUnset /\ b /= DueUnset)
                    => IF sortCall.sortOption = "due-asc" THEN a <= b ELSE a >= b

\* under due-desc a task without a date and two dates in ascending order came
\* back as the later date, the earlier date, the task without a date
C15_Witness ==
  /\ sortCall.pc = "returned" /\ sortCall.sortOption = "due-desc"
  /\ Len(sortCall.tasks) = 3
  /\ sortCall.tasks[1].due = DueUnset
  /\ sortCall.tasks[2].due = 1 /\ sortCall.tasks[3].due = 2
  /\ sortCall.sorted = <<sortCall.tasks[3], sortCall.tasks[2], sortCall.tasks[1]>>

\* C16: under the created, updated and priority options the result is ordered
\* by the key in the requested direction: stamps by their lexical order,
\* priorities by the weights high = 3, medium = 2, low = 1.
C16_SortOrdersByKey ==
  (SortReturned /\ sortCall.sortOption \notin {"due-asc", "due-desc"})
    => \A i, j \in 1..Len(sortCall.sorted) :
         i < j =>
           LET a == SortKey(sortCall.sorted[i], sortCall.sortOption)
               b == SortKey(sortCall.sorted[j], sortCall.sortOption)
           IN  IF sortCall.sortOption \in {"created-asc", "updated-asc", "priority-asc"}
               THEN a <= b ELSE a >= b

\* under priority-desc low, high, medium came back as high, medium, low
C16_Witness ==
  /\ sortCall.pc = "returned" /\ sortCall.sortOption = "priority-desc"
  /\ Len(sortCall.tasks) = 3
  /\ sortCall.tasks[1].priority = "low" /\ sortCall.tasks[2].priority = "high"
  /\ sortCall.tasks[3].priority = "medium"
  /\ sortCall.sorted = <<sortCall.tasks[2], sortCall.tasks[3], sortCall.tasks[1]>>

\* C17: sortTasks is idempotent: called on the list it returned, under the same
\* option, it returns the same list, element by element; also for lists with
\* several tasks whose due is "-".
C17_SortIdempotent ==
  sortCall.pc = "rereturned" => sortCall.sorted = sortCall.tasks

\* a list sorted by due date, with two tasks without a date, came back as it was
C17_Witness ==
  /\ sortCall.pc = "rereturned" /\ sortCall.sortOption = "due-asc"
  /\ Len(sortCall.tasks) = 3
  /\ sortCall.tasks[1].due /= DueUnset
  /\ sortCall.tasks[2].due = DueUnset /\ sortCall.tasks[3].due = DueUnset
  /\ sortCall.sorted = sortCall.tasks

(***************************************************************************)
(* Resolution of the drop target (SpecDrag).                               *)
(***************************************************************************)
\* handleDragOver runs: DndContext reports another droppable under the card
OverStep == ~AnyReturn /\ ~AnyAnswer /\ active /= Null /\ active' = active /\ over' /= over

\* the status a target id stands for, as the specification states it
StatedTarget(id) ==
  IF id \in {"not-started", "in-progress", "done"} THEN id
  ELSE IF \E t \in Range(localTasks) : t.filePath = id
       THEN (CHOOSE t \in Range(localTasks) : t.filePath = id).status
       ELSE Null

\* C18: in handleDragOver and handleDragEnd a target id that is a status name
\* stands for that status, the filePath of a task of the view stands for the
\* status that task has in the view, and any other id stands for nothing:
\* handleDragOver shows the dragged task under the status the target stands for
\* and leaves the view as it is when it stands for nothing; handleDragEnd saves
\* the dragged task with the status the target stands for when that is not the
\* original status, and saves nothing when it stands for nothing.
C18_TargetResolution ==
  [][/\ OverStep
          => LET r == StatedTarget(over')
             IN  localTasks' = IF r = Null THEN localTasks
                               ELSE SetStatus(localTasks, active, r)
     /\ (DragEnds /\ over /= Null)
          => LET r == StatedTarget(over)
             IN  IF r /= Null /\ r /= originalStatus
                    /\ FindTask(localTasks, active) /= None
                 THEN /\ Cardinality(SavesIssued) = 1
                      /\ \A s \in SavesIssued :
                            /\ reqs'[s].task.filePath = active
                            /\ reqs'[s].task.status = r
                 ELSE SavesIssued = {}]_vars

\* the card is over a droppable that is no card of the view, and the view still
\* shows it under the status an earlier target gave it
C18_Witness ==
  /\ active /= Null /\ over \in UnknownTargets
  /\ FindTask(localTasks, active) /= None
  /\ FindTask(localTasks, active)[1].status /= originalStatus

(***************************************************************************)
(* Git sync (SpecSync).                                                    *)
(***************************************************************************)
\* the coordinator is Ready: the check has finished and the folder is a repository
Ready == ~isChecking /\ isGitRepo

\* the auto-sync effect calls handleSync in this step
AutoSyncTriggered == ev'[1] = "autoSync"

\* this step calls invoke("git_sync")
SyncIssued == \E k \in Slots : syncs[k].phase = "none" /\ syncs'[k].phase = "sent"

\* C19: while the board is mounted on a folder the automatic sync is triggered
\* at most once, however often the init effect runs and whatever its commands
\* answer, and it is triggered (and issues the sync) in the step in which the
\* state first becomes Ready, so that no Ready state is without it.
C19_AutoSyncOnce ==
  /\ [](Ready => initialSyncDone)
  /\ [][/\ AutoSyncTriggered => ~initialSyncDone /\ initialSyncDone'
        /\ initialSyncDone => initialSyncDone'
        /\ (~initialSyncDone /\ initialSyncDone')
             => /\ ev' = <<"autoSync", "issued", "none", FALSE>>
                /\ SyncIssued /\ Ready']_vars

\* the init effect ran twice and found a repository, the automatic sync has
\* come back, no sync button was clicked, and no sync is running
C19_Witness ==
  /\ \A i \in 1..2 : inits[i].pc = "done"
  /\ Ready /\ initialSyncDone
  /\ lastSyncResult /= None /\ ~isSyncing /\ SyncsInFlight = {}
  /\ ops = 0

\* C20: a sync is only issued when the coordinator is Ready and not syncing: no
\* git_sync call is made while the check runs or the folder is no repository,
\* at most one git_sync call is awaiting its answer at any time, and a
\* handleSync that runs while a sync is running issues nothing and changes no
\* sync state.
C20_SyncOnlyWhenReady ==
  /\ [](Cardinality(SyncsInFlight) <= 1)
  /\ [][/\ SyncIssued => /\ isGitRepo' /\ ~isChecking'
                          /\ ~isSyncing /\ SyncsInFlight = {}
        /\ (ev'[1] = "handleSync" /\ (isSyncing \/ isChecking \/ ~isGitRepo))
             => ~SyncIssued /\ UNCHANGED syncVars]_vars

\* the sync button has been clicked after the automatic sync came back, and
\* its sync is the only one awaiting its answer
C20_Witness ==
  /\ ev = <<"handleSync", "issued", "button", FALSE>>
  /\ initialSyncDone /\ isSyncing
  /\ Cardinality(SyncsInFlight) = 1
  /\ \A k \in SyncsInFlight : syncs[k].via = "button"

(***************************************************************************)
(* The result of a sync and the message it shows (SpecSync).               *)
(***************************************************************************)
\* sync returns to handleSync, in this step, for the call in slot k
SyncReturns(k) == syncs[k].phase = "answered" /\ syncs'[k].phase = "none"

\* this step calls invoke("get_tasks")
LoadIssued == \E s \in Slots : Issued(s, "get_tasks")

\* C21: a git_sync call that fails is never thrown to handleSync: sync returns a
\* SyncResult with pulled, pushed and conflicts false and a message made of the
\* error, that result becomes lastSyncResult, the syncing flag is cleared, and
\* handleSync goes on as after a successful sync that pulled nothing: it shows
\* the result's message and arms the timer that clears it; no get_tasks call is
\* issued and the store is left alone.
C21_SyncFailureBecomesResult ==
  [][\A k \in Slots :
       (SyncReturns(k) /\ ~syncs[k].answer[1].ok) =>
         /\ lastSyncResult' /= None
         /\ ~lastSyncResult'[1].pulled /\ ~lastSyncResult'[1].pushed
         /\ ~lastSyncResult'[1].conflicts
         /\ lastSyncResult'[1].message = "sync error: " \o syncs[k].answer[1].error
         /\ syncMessage' = lastSyncResult'[1].message
         /\ ~isSyncing'
         /\ timers' = Append(timers, SYNC_MESSAGE_SECONDS)
         /\ ~LoadIssued
         /\ UNCHANGED <<reqs, storeVars>>]_vars

\* a sync has failed and its message has been on screen for a second
C21_Witness ==
  /\ lastSyncResult = Some(SyncResult(FALSE, FALSE, FALSE, "sync error: git failed"))
  /\ syncMessage = "sync error: git failed"
  /\ ~isSyncing /\ shownFor = 1
  /\ timers = <<SYNC_MESSAGE_SECONDS - 1>>

\* C22: a sync message on screen is never older than the timer's delay: a
\* message set at time T is cleared no later than T + 3000 ms, also when the
\* sync pulled and handleSync reloads the tasks after setting the message.
C22_MessageClearedInTime ==
  (syncMessage /= Null /\ ~isSyncing) => shownFor <= SYNC_MESSAGE_SECONDS

\* C23: a sync message on screen is removed only by the start of a new sync or
\* at its own deadline, 3000 ms after it was set: no timer armed for the message
\* of an earlier sync clears a later message that is younger than that.
C23_MessageOnlyClearedAtDeadline ==
  [][(syncMessage /= Null /\ syncMessage' = Null)
       => (SyncIssued \/ shownFor >= SYNC_MESSAGE_SECONDS)]_vars

\* the load that handleSync awaits returns in this step
SyncLoadReturns ==
  \E s \in Slots : /\ reqs[s].cont = "armTimer" /\ reqs[s].phase = "answered"
                   /\ reqs'[s].kind = "none"

\* C24: when a sync returns, handleSync calls loadTasks() (one get_tasks call)
\* if and only if the backend's result has pulled = true, and no other step
\* issues that load; the timer that clears the message is armed in the step of
\* the sync's return when nothing was pulled, and else only when the load has
\* returned, so the load is always called before the deadline is armed.
C24_ReloadIffPulled ==
  [][/\ \A k \in Slots :
          SyncReturns(k) =>
            LET a == syncs[k].answer[1]
                pulled == a.ok /\ a.result.pulled
            IN  /\ pulled <=> \E s \in Slots : /\ Issued(s, "get_tasks")
                                                /\ reqs'[s].cont = "armTimer"
                /\ pulled => timers' = timers
                /\ ~pulled => timers' = Append(timers, SYNC_MESSAGE_SECONDS)
                                /\ ~LoadIssued
     /\ (\E s \in Slots : Issued(s, "get_tasks") /\ reqs'[s].cont = "armTimer")
          => \E k \in Slots : SyncReturns(k)
     /\ SyncLoadReturns => timers' = Append(timers, SYNC_MESSAGE_SECONDS)
     /\ Len(timers') > Len(timers)
          => SyncLoadReturns \/ \E k \in Slots : SyncReturns(k)]_vars

\* a sync has pulled, its reload has returned and armed the timer after the
\* message had been on screen for a second
C24_Witness ==
  /\ lastSyncResult /= None /\ lastSyncResult[1].pulled
  /\ syncMessage = "pulled" /\ shownFor = 1
  /\ timers = <<SYNC_MESSAGE_SECONDS>>
  /\ ev[1] = "loadTasks" /\ ev[3] = "handleSync"

(***************************************************************************)
(* The sync branch (SpecBranch).                                           *)
(***************************************************************************)
\* the branch a later mount of the board would read from localStorage
StoredBranch == loadGitSettings(storedSettings).syncBranch

\* C25: handleBranchChange(b) sets gitSettings.syncBranch to b, stores settings
\* from which b is read back, and closes the selector, all in its own step, and
\* nothing else changes the settings in memory or in storage; every git_sync
\* call is issued with the branch then in memory, which is "main" as long as
\* nothing or a text that does not parse is stored.
C25_BranchWriteThrough ==
  /\ [](gitSettings.syncBranch = StoredBranch)
  /\ []((storedSettings = Null \/ JSONparse(storedSettings) = None)
          => gitSettings.syncBranch = "main")
  /\ [][/\ ev'[1] = "handleBranchChange"
             => /\ gitSettings'.syncBranch = ev'[2]
                /\ JSONparse(storedSettings') = Some([syncBranch |-> ev'[2]])
                /\ ~showBranchDropdown'
        /\ (gitSettings' /= gitSettings \/ storedSettings' /= storedSettings)
             => ev'[1] = "handleBranchChange"
        /\ \A k \in Slots :
             (syncs[k].phase = "none" /\ syncs'[k].phase = "sent")
               => syncs'[k].branch = gitSettings'.syncBranch]_vars

\* "dev" has been selected and stored, the selector is closed, and a sync
\* started from the button is carrying "dev" to the backend
C25_Witness ==
  /\ gitSettings.syncBranch = "dev"
  /\ storedSettings = JSONstringify([syncBranch |-> "dev"])
  /\ ~showBranchDropdown
  /\ \E k \in Slots : syncs[k] = [phase |-> "sent", via |-> "button",
                                  branch |-> "dev", answer |-> None]

(***************************************************************************)
(* A folder that is no repository (SpecSync).                              *)
(***************************************************************************)
\* the detection is over and has found no repository
NotRepo == ~isGitRepo /\ ~isChecking /\ \A i \in 1..MaxMounts : inits[i].pc \in {"off", "done"}

\* run i of the init effect gets the answer of checkGitRepo in this step
CheckReturns(i) == inits[i].pc = "check" /\ inits'[i].pc /= "check"

\* C26: a run of the detection that returns false (or fails) fetches neither
\* the branch list nor the current branch and starts no sync; once the
\* detection is over with the folder found to be no repository, the board stays
\* in that state for as long as it is mounted: isGitRepo and isChecking stay
\* false, branches and currentBranch are never set, no run of the init effect
\* starts again, and no git_sync call, automatic or from the button, is issued;
\* a git_sync call is only ever issued in a state that has a repository.
C26_NotRepoIsTerminal ==
  [][/\ \A i \in 1..MaxMounts :
          (CheckReturns(i) /\ ~isGitRepo')
            => /\ inits'[i].pc = "done"
               /\ branches' = branches /\ currentBranch' = currentBranch
               /\ ~SyncIssued
     /\ NotRepo => /\ NotRepo'
                   /\ ~SyncIssued
                   /\ UNCHANGED <<branches, currentBranch, inits, initialSyncDone>>
                   /\ ev'[1] \notin {"autoSync", "handleSync"}
     /\ SyncIssued => isGitRepo']_vars

\* the detection has answered false in both runs of the init effect: nothing
\* was fetched, no sync was ever started, and the tasks have been loaded
C26_Witness ==
  /\ NotRepo
  /\ \A i \in 1..MaxMounts : inits[i].pc = "done"
  /\ branches = <<>> /\ currentBranch = ""
  /\ ~initialSyncDone /\ lastSyncResult = None /\ timers = <<>>
  /\ ~loading /\ Len(tasks) > 0

(***************************************************************************)
(* C27: every failure leaves a retry path.                                 *)
(***************************************************************************)
\* the store of the open board holds an error
ErrorHeld == BoardOpen /\ error /= Null

\* the board is rendered, free of error, and shows the loaded tasks
Recovered ==
  /\ BoardShown
  /\ ~loading
  /\ localTasks = tasks

\* the backend has failed a load of the open board
LoadFails ==
  \E s \in Slots : /\ reqs[s].kind = "get_tasks"
                   /\ reqs[s].phase = "answered"
                   /\ ~reqs[s].orphan
                   /\ ~reqs[s].ok

\* C27: whenever the store holds an error (after a failed load, save, create or
\* delete), the operations the user still has (the back button of the error
\* screen, then the selection of the folder on the start screen) lead, unless
\* the backend fails a load again, to the board rendered without error on the
\* loaded tasks.
C27_RetryPath == ErrorHeld ~> (Recovered \/ LoadFails)

\* the load of the board the user opened again after leaving the error screen
\* has returned, and the board has recovered
C27_Witness ==
  /\ Recovered
  /\ leftOn = "error"
  /\ ev[1] = "loadTasks" /\ ev[2] = "ok"

(***************************************************************************)
(* C28: the "new task" signals of the menu and of the keyboard.            *)
(***************************************************************************)
MenuSignal == ev'[1] = "menuNewTask"

KeySignal == ev'[1] = "keyNewTask"

\* what a signal has to do: open the form on a blank task when no form is open,
\* and nothing when one is
SignalHandled ==
  IF selectedTask = None
  THEN selectedTask' = Some(newTask) /\ isNewTask'
  ELSE UNCHANGED formVars

\* the signal of the keyboard is handled
KeySignalHandled == [][KeySignal => SignalHandled]_vars

\* a signal of the menu leaves an open form alone
MenuSignalIgnoredWhenOpen ==
  [][MenuSignal /\ selectedTask /= None => UNCHANGED formVars]_vars

\* a signal of the menu opens the blank form when none is open
MenuSignalOpensWhenClosed ==
  [][MenuSignal /\ selectedTask = None =>
       selectedTask' = Some(newTask) /\ isNewTask']_vars

\* C28: a "new task" signal, of the menu or of the keyboard, opens the form on a
\* blank task when no form is open, and changes nothing when a form is open,
\* whatever the listener registrations under way.
C28_NewTaskSignal == [][MenuSignal \/ KeySignal => SignalHandled]_vars

(***************************************************************************)
(* C29: the stored pointer to the last folder.                             *)
(***************************************************************************)
\* C29: once App has looked the pointer up, the selected folder and the stored
\* pointer are the same (both absent on the start screen); selecting a folder
\* sets both to it; going back to the start screen clears both; and the lookup
\* at startup opens the board, on the stored folder, exactly when a pointer
\* is stored.
C29_PointerMirrorsFolder ==
  /\ [](isInitialized => selectedFolder = storedFolder)
  /\ [][ev'[1] = "handleFolderSelect" =>
          selectedFolder' = ev'[2] /\ storedFolder' = ev'[2] /\ BoardOpen']_vars
  /\ [][ev'[1] = "handleBackToHome" =>
          selectedFolder' = Null /\ storedFolder' = Null /\ ~BoardOpen']_vars
  /\ [][ev'[1] = "restoreLastFolder" =>
          /\ BoardOpen' <=> storedFolder /= Null
          /\ BoardOpen' => selectedFolder' = storedFolder
          /\ storedFolder' = storedFolder]_vars

\* the user has gone back from a board to the start screen and has selected the
\* other folder there
C29_Witness ==
  /\ ev[1] = "handleFolderSelect"
  /\ leftOn = "board"
  /\ selectedFolder = OtherFolder
  /\ storedFolder = OtherFolder

(***************************************************************************)
(* C30: the state after the end of a drag.                                 *)
(***************************************************************************)
\* the view lt shows the tasks of the canonical collection ts, each under its
\* status there
ShowsCanonical(lt, ts) ==
  /\ PathsOf(lt) = PathsOf(ts)
  /\ \A i \in 1..Len(lt) : FindTask(ts, lt[i].filePath)[1].status = lt[i].status

\* the coordinator is idle and the view is the canonical collection again
IdleAndCleared ==
  /\ draggingTask' = None
  /\ originalStatus' = Null
  /\ ShowsCanonical(localTasks', tasks')

\* after an end with no target
EndNoTargetCleared == [][(DragEnds /\ over = Null) => IdleAndCleared]_vars

\* after an end on a target that resolves to the status at the start of the drag
EndSameStatusCleared ==
  [][(DragEnds /\ over /= Null /\ getStatusFromOverId(over) /= Null
        /\ getStatusFromOverId(over) = originalStatus) => IdleAndCleared]_vars

\* after an end on a target that resolves to another status
EndOtherStatusCleared ==
  [][(DragEnds /\ over /= Null /\ getStatusFromOverId(over) /= Null
        /\ getStatusFromOverId(over) /= originalStatus) => IdleAndCleared]_vars

\* after an end on a target that resolves to nothing
EndUnresolvedCleared ==
  [][(DragEnds /\ over /= Null /\ getStatusFromOverId(over) = Null)
       => IdleAndCleared]_vars

\* C30: after handleDragEnd, whatever the target (none, one that resolves to the
\* status at the start of the drag, one that resolves to another status, one that
\* resolves to nothing), no task is being dragged, no original status is
\* recorded, and the view shows every task under its status in the canonical
\* collection.
C30_EndIsIdleAndCleared == [][DragEnds => IdleAndCleared]_vars

(***************************************************************************)
(* C31: what the start and the over steps of a drag leave alone.           *)
(***************************************************************************)
\* handleDragStart runs
DragStarts == active = Null /\ active' /= Null

\* handleDragOver runs (on a target other than the last one)
DragOvers == active /= Null /\ active' = active /\ over' /= over

\* the view after the step differs from the view before it at most in the
\* status of the task path
OnlyStatusOf(path) ==
  /\ Len(localTasks') = Len(localTasks)
  /\ \A i \in 1..Len(localTasks) :
       IF localTasks[i].filePath = path
       THEN localTasks' [i] = [localTasks[i] EXCEPT !.status = localTasks'[i].status]
       ELSE localTasks'[i] = localTasks[i]

\* C31: handleDragStart and handleDragOver leave the canonical collection, the
\* pending calls and the backend as they are; handleDragOver changes at most the
\* dragged task's status in the view, and nothing when the target resolves to
\* the status the view already shows for it; and a handleDragEnd that changes
\* the canonical collection has a target that resolves to a status other than
\* the one recorded at the start of the drag.
C31_StartOverLeaveCanonical ==
  [][/\ (DragStarts \/ DragOvers)
          => tasks' = tasks /\ reqs' = reqs /\ backend' = backend
     /\ DragOvers
          => /\ OnlyStatusOf(active)
             /\ \A i \in 1..Len(localTasks) :
                  (localTasks[i].filePath = active
                     /\ getStatusFromOverId(over') = localTasks[i].status)
                    => localTasks' = localTasks
     /\ (DragEnds /\ tasks' /= tasks)
          => /\ over /= Null
             /\ getStatusFromOverId(over) /= Null
             /\ getStatusFromOverId(over) /= originalStatus]_vars

\* a drag is under way over a column, and the view shows the dragged task
\* there while the canonical collection holds it under its own status
C31_Witness ==
  /\ active /= Null
  /\ over \in StatusSet
  /\ \E i \in 1..Len(localTasks) :
       /\ localTasks[i].filePath = active
       /\ localTasks[i].status = over
       /\ FindTask(tasks, active) /= None
       /\ FindTask(tasks, active)[1].status /= over

(***************************************************************************)
(* C32: the preview while a card is held.                                  *)
(***************************************************************************)
\* the status the view shows for the task path, or Null when it shows none
ShownStatus(lt, path) ==
  IF FindTask(lt, path) = None THEN Null ELSE FindTask(lt, path)[1].status

\* C32: while a card is held, a step other than handleDragOver and
\* handleDragEnd (the continuation of a load, of a save or of a delete, a change
\* of the sort option) leaves the status that the view shows for the dragged
\* task as it is.
C32_PreviewOnlyByDrag ==
  [][(active /= Null /\ ~DragOvers /\ ~DragEnds)
       => ShownStatus(localTasks', active) = ShownStatus(localTasks, active)]_vars

(***************************************************************************)
(* C33: failures of the detection commands.                                *)
(***************************************************************************)
\* the steps in which a detection command fails
CheckFails(i) == checkGitRepoReturn(i, "error")

BranchesFail(i) == fetchBranchesReturn(i, FALSE)

CurrentFails(i) == fetchCurrentBranchReturn(i, FALSE)

\* the step leaves the store and the screen of the board as they are
BoardUntouched ==
  /\ UNCHANGED <<storeVars, localTasks, reqs>>
  /\ BoardShown' = BoardShown

\* the detection is over
DetectionOver ==
  ~isChecking /\ \A i \in 1..MaxMounts : inits[i].pc \in {"off", "done"}

\* C33: a failed repository check sets isGitRepo to false and ends its run of
\* the detection without fetching; a failed fetch of the branch list sets the
\* empty list and a failed fetch of the current branch the empty name; none of
\* these steps touches the store (its error included) or changes the screen
\* the board shows; and whatever the commands answer, the detection comes to an
\* end, with isChecking false for good.
C33_DetectionFailuresDegrade ==
  /\ [][\A i \in 1..MaxMounts :
          /\ CheckFails(i) => /\ ~isGitRepo'
                              /\ inits'[i].pc = "done"
                              /\ branches' = branches
                              /\ currentBranch' = currentBranch
                              /\ BoardUntouched
          /\ BranchesFail(i) => branches' = <<>> /\ BoardUntouched
          /\ CurrentFails(i) => currentBranch' = "" /\ BoardUntouched]_vars
  /\ <>[]DetectionOver

\* the detection is over in a repository whose branch list and current branch
\* could not be fetched, and the board shows the loaded tasks
C33_Witness ==
  /\ DetectionOver
  /\ isGitRepo
  /\ branches = <<>>
  /\ currentBranch = ""
  /\ BoardShown /\ error = Null /\ ~loading

(***************************************************************************)
(* C34: the order of the canonical collection at rest.                     *)
(***************************************************************************)
\* C34: whenever no call of the store is pending, the canonical collection is
\* in the order sortTasks gives it under the current sort option.
C34_SortedAtRest == Quiet => tasks = sortTasks(tasks, sortOption)

(***************************************************************************)
(* C35: the canonical collection and the backend at rest.                  *)
(***************************************************************************)
\* C35: with a backend that has accepted every call, whenever no call of the
\* store is pending the canonical collection holds exactly the backend's tasks,
\* each with the backend's field values.
C35_CanonicalIsBackendAtRest ==
  Quiet => (Range(tasks) = backend /\ Len(tasks) = Cardinality(backend))

(***************************************************************************)
(* C36: the loading flag.                                                  *)
(***************************************************************************)
\* a call of loadTasks has not returned yet
LoadInFlight == \E s \in Slots : reqs[s].kind = "get_tasks" /\ ~reqs[s].orphan

\* C36: loading is true exactly while at least one load is in flight.
C36_LoadingIffLoadInFlight == loading <=> LoadInFlight

(***************************************************************************)
(* C37: one creation form, one create.                                     *)
(***************************************************************************)
\* the creation form is submitted in this step
CreateSubmitted == ev'[1] = "handleSaveTask" /\ ev'[2] = "create"

\* a create issued by a submit of the form, or the reload that follows it, has
\* not returned yet
CreateInFlight ==
  \E s \in Slots :
    /\ reqs[s].cont = "closeSave"
    /\ \/ reqs[s].kind = "create_task"
       \/ reqs[s].kind = "get_tasks" /\ reqs[s].via = "createTask"

\* C37: the creation form is not submitted, and no create is issued, while the
\* create of an earlier submit of that form, or its reload, is in flight.
C37_OneCreatePerForm == [][CreateSubmitted => ~CreateInFlight]_vars

(***************************************************************************)
(* C38: which form a completed submit or delete closes.                    *)
(***************************************************************************)
\* the continuation of the submit or delete that made the call in slot s runs
\* to its end in this step
Completes(s) ==
  /\ reqs[s].cont \in {"closeSave", "closeDelete"}
  /\ reqs[s].phase = "answered"
  /\ reqs'[s].cont \notin {"closeSave", "closeDelete"}

\* a form is open that is on another task than the form that made the call r:
\* a save, create or delete call carries the task of its form; the reload after
\* a create comes from the creation form, any other reload from the form of an
\* existing task
OtherFormOpen(r) ==
  /\ selectedTask /= None
  /\ CASE r.kind = "get_tasks" -> (IF r.via = "createTask" THEN ~isNewTask
                                   ELSE isNewTask)
       [] r.kind = "create_task" -> ~isNewTask
       [] OTHER -> selectedTask[1].filePath /= r.task.filePath

\* C38: when a submit or a delete completes while a form on another task is
\* open, that form stays open, on its task and in its mode.
C38_CompletionClosesOwnForm ==
  [][\A s \in Slots :
       (Completes(s) /\ OtherFormOpen(reqs[s])) => UNCHANGED formVars]_vars

(***************************************************************************)
(* C39: what the save of a drop changes.                                   *)
(***************************************************************************)
\* C39: the save that handleDragEnd issues carries the dragged task as the
\* canonical collection holds it at the drop, but for its status and its
\* update time; it is what the canonical collection holds for that task after
\* the step, and every other task of the collection is kept as it is.
C39_DropSaveChangesStatusOnly ==
  [][DragEnds =>
       \A s \in SavesIssued :
         LET sent == reqs'[s].task
             held == FindTask(tasks, active)
         IN  /\ held /= None
             /\ sent = [held[1] EXCEPT !.status = sent.status,
                                       !.updated = sent.updated]
             /\ Range(tasks') = (Range(tasks) \ {held[1]}) \cup {sent}
             /\ Len(tasks') = Len(tasks)]_vars

\* a drop has just issued its save, the only call pending, of a task that the
\* backend holds under another status than the one recorded at the start of
\* the drag
C39_Witness ==
  /\ ev[1] = "handleDragEnd" /\ ev[2] \in StatusSet /\ ev[2] /= ev[3] /\ ev[4]
  /\ \E s \in Slots :
       /\ reqs[s].kind = "save_task" /\ reqs[s].phase = "sent"
       /\ \A o \in Slots \ {s} : reqs[o].kind = "none"
       /\ reqs[s].task.status = ev[2] /\ reqs[s].task.updated = now
       /\ \E b \in backend : /\ b.filePath = reqs[s].task.filePath
                              /\ b.status /= ev[3]

====
